---- MODULE Spec2Model ----
(***************************************************************************)
(* Staking protocol handlers of iotex-core                                 *)
(* (action/protocol/staking/handlers.go) as a state machine.               *)
(*                                                                         *)
(* The state is the content of the state manager the handlers write to     *)
(* (accounts, reward pool, buckets, bucket count, the two bucket indices,  *)
(* candidate records), the in-memory candidate center of the Protocol      *)
(* object, its configuration, and the (receipt, error) pair the last       *)
(* handler call returned.  Every handler is a pure operator from the state *)
(* before the call to the state after it and its result; one action per    *)
(* handler applies it to inputs drawn from small sets.                     *)
(*                                                                         *)
(* State-manager reads and writes are taken to succeed (an in-memory       *)
(* store); the error returns of the handlers that remain are the ones the  *)
(* handlers' own logic can produce.  A handler that returns an error       *)
(* aborts block application, so no further action is applied afterwards.   *)
(***************************************************************************)
EXTENDS Integers, Sequences, FiniteSets, TLC

\* ------------------------------------------------------------------ bounds
MaxSteps == 3        \* actions applied in one run
MaxBuckets == 3      \* bucket indices handed out in one run
InitBalance == 5     \* balance of every account at the start
MaxChangeSteps == 4  \* handler calls in a run that ends with a changeCandidate
MaxTrieOps == 4      \* trie calls in one run

Addr == {"a1", "a2"}
NilAddr == "nil"                     \* a nil address.Address
Names == {"n1", "n2"}
NoName == ""                         \* an empty candidate name
Amounts == {1}
Times == {0, 1, 2}                   \* block timestamps, Unix seconds
\* (duration in days, auto-stake) pairs of the staking actions
StakeOpts == {[duration |-> 0, autoStake |-> FALSE], [duration |-> 1, autoStake |-> TRUE]}
\* (nonce, gas price, intrinsic gas, block gas limit) of the action contexts:
\* a fee of 1, a fee of 2, and an intrinsic gas above the block gas limit
GasCtxs ==
    {[nonce |-> 1, gasPrice |-> 1, intrinsicGas |-> 1, gasLimit |-> 1],
     [nonce |-> 2, gasPrice |-> 2, intrinsicGas |-> 1, gasLimit |-> 1],
     [nonce |-> 1, gasPrice |-> 1, intrinsicGas |-> 2, gasLimit |-> 1]}

\* ------------------------------------------------------------------ state
VARIABLES
    accounts,          \* address -> [balance, nonce]         (account namespace)
    rewardPool,        \* fund credited by depositGas
    buckets,           \* bucket index -> VoteBucket           (partial)
    bucketCount,       \* total bucket count = next index
    voterBuckets,      \* owner -> set of bucket indices
    candBuckets,       \* candidate -> set of bucket indices
    candidates,        \* owner -> Candidate                   (persisted, partial)
    inMemCandidates,   \* owner -> Candidate                   (p.inMemCandidates)
    config,            \* p.config
    steps,             \* number of handler calls so far
    result,            \* what the last handler returned, and which handler it was
    mpt,               \* the merklePatriciaTree object and its KV store
    rootHashes,        \* what RootHash() returned so far, with the pairs held then
    trieOps,           \* number of trie calls that returned so far
    trieResult,        \* what the last trie call was and what it returned
    goroutines         \* goroutine -> the trie call it is in and how far it got

stakingVars == <<accounts, rewardPool, buckets, bucketCount, voterBuckets, candBuckets,
                 candidates, inMemCandidates, config, steps, result>>
trieVars == <<mpt, rootHashes, trieOps, trieResult, goroutines>>
vars == <<stakingVars, trieVars>>

\* The state the handlers read and write, as one record.
State ==
    [accounts |-> accounts, rewardPool |-> rewardPool, buckets |-> buckets,
     bucketCount |-> bucketCount, voterBuckets |-> voterBuckets,
     candBuckets |-> candBuckets, candidates |-> candidates,
     inMemCandidates |-> inMemCandidates]

\* ------------------------------------------------------------------ helpers
Min(a, b) == IF a < b THEN a ELSE b
Max(a, b) == IF a > b THEN a ELSE b

\* f with key k bound to v (k added to the domain when absent).
Put(f, k, v) == [x \in (DOMAIN f) \cup {k} |-> IF x = k THEN v ELSE f[x]]
\* f without key k.
Del(f, k) == [x \in (DOMAIN f) \ {k} |-> f[x]]

RECURSIVE SumOver(_, _)
SumOver(S, f) ==
    IF S = {} THEN 0
    ELSE LET x == CHOOSE y \in S : TRUE IN f[x] + SumOver(S \ {x}, f)

\* Receipt statuses (iotextypes.ReceiptStatus) and the errors handlers return.
Success == "Success"
ErrCandidateNotExist == "ErrCandidateNotExist"
ErrInvalidBucketIndex == "ErrInvalidBucketIndex"
ErrUnauthorizedOperator == "ErrUnauthorizedOperator"
ErrInvalidBucketType == "ErrInvalidBucketType"
ErrNotEnoughBalance == "ErrNotEnoughBalance"
ErrWithdrawBeforeUnstake == "ErrWithdrawBeforeUnstake"
ErrWithdrawBeforeMaturity == "ErrWithdrawBeforeMaturity"
NoReceipt == "nil"                   \* the handler returned a nil receipt
NoError == "nil"                     \* the handler returned a nil error
Failure == "Failure"                 \* ReceiptStatus_Failure: a fetchError that is fatal
OK == "ok"                           \* a fetch returned no fetchError

\* ------------------------------------------------------------------ accounts
\* accountutil.LoadAccount: the stored account (an empty one when none is stored).
LoadAccount(s, addr) == s.accounts[addr]

\* accountutil.StoreAccount
StoreAccount(s, addr, acc) == [s EXCEPT !.accounts[addr] = acc]

\* p.depositGas: the amount goes from the caller's account to the reward pool.
depositGas(s, ctx, amount) ==
    LET acc == LoadAccount(s, ctx.caller)
        s1 == StoreAccount(s, ctx.caller, [acc EXCEPT !.balance = @ - amount])
    IN [s1 EXCEPT !.rewardPool = @ + amount]

\* increaseNonce with the nonce stored unconditionally.
increaseNonce_Overwrite(s, addr, nonce) ==
    StoreAccount(s, addr, [LoadAccount(s, addr) EXCEPT !.nonce = nonce])

\* increaseNonce
increaseNonce(s, addr, nonce) ==
    LET acc == LoadAccount(s, addr)
        acc1 == IF nonce > acc.nonce THEN [acc EXCEPT !.nonce = nonce] ELSE acc
    IN StoreAccount(s, addr, acc1)

\* ------------------------------------------------------------------ buckets
\* An int64 is held as its eight bytes in two's complement, lowest byte first.
\* Int64OfNat: the int64 of a number below 2^31.
Int64OfNat(n) == [i \in 1..8 |-> IF i <= 4 THEN (n \div (256 ^ (i - 1))) % 256 ELSE 0]

\* The int64 -1.
MinusOne == [i \in 1..8 |-> 255]

\* The bytes of a * b from byte k up, with the carry of the bytes below; what
\* does not fit into eight bytes is dropped, as Go's int64 product wraps.
RECURSIVE MulBytes(_, _, _, _)
MulBytes(a, b, k, carry) ==
    IF k > 8 THEN <<>>
    ELSE LET sum == carry + SumOver(1..k, [i \in 1..k |-> a[i] * b[k + 1 - i]])
         IN <<sum % 256>> \o MulBytes(a, b, k + 1, sum \div 256)

\* a * b of two int64 values.
MulInt64(a, b) == MulBytes(a, b, 1, 0)

\* The quotient (bytes 1..k) and the remainder of the unsigned bytes 1..k of a
\* by a divisor d below 2^23; rem is the remainder of the bytes above.
RECURSIVE DivBytes(_, _, _, _)
DivBytes(a, d, k, rem) ==
    IF k = 0 THEN [q |-> <<>>, r |-> rem]
    ELSE LET cur == rem * 256 + a[k]
             below == DivBytes(a, d, k - 1, cur % d)
         IN [q |-> Append(below.q, cur \div d), r |-> below.r]

\* time.Hour: 3600 seconds of 10^9 nanoseconds.
Hour == MulInt64(Int64OfNat(3600), Int64OfNat(1000000000))

\* A time.Duration (an int64 count of nanoseconds) as Duration.String() splits
\* it: sign, hours, minutes, seconds and nanoseconds. The magnitude is divided
\* into milliseconds and then into hours.
Duration(x) ==
    LET neg == x[8] >= 128
        mag == IF neg THEN MulInt64(x, MinusOne) ELSE x
        ms == DivBytes(mag, 1000000, 8, 0)
        h == DivBytes(ms.q, 3600000, 8, 0)
    IN [neg |-> neg,
        hours |-> h.q[1] + 256 * h.q[2] + 65536 * h.q[3],
        minutes |-> h.r \div 60000, seconds |-> (h.r \div 1000) % 60,
        nanoseconds |-> (h.r % 1000) * 1000000 + ms.r]

\* A duration of h hours, h not negative.
Hours(h) == [neg |-> FALSE, hours |-> h, minutes |-> 0, seconds |-> 0, nanoseconds |-> 0]

\* The whole days of a duration; a negative duration has none.
DurationDays(d) == IF d.neg THEN 0 ELSE d.hours \div 24

\* time.Duration(act.Duration()) * 24 * time.Hour, in wrapping int64
\* nanoseconds (days below 2^31).
DaysToDuration(days) ==
    Duration(MulInt64(MulInt64(Int64OfNat(days), Int64OfNat(24)), Hour))

\* NewVoteBucket: a bucket that is still staked (UnstakeStartTime = Unix 0).
\* (CreateTime and StakeStartTime, which no handler reads, are left out.)
NewVoteBucket(cand, owner, amount, days, ctime, autoStake) ==
    [candidate |-> cand, owner |-> owner, stakedAmount |-> amount,
     stakedDuration |-> DaysToDuration(days), unstakeStartTime |-> 0,
     autoStake |-> autoStake]

\* calculateVoteWeight: a function of amount, duration, auto-stake and
\* self-stake: a bonus per day, a bonus for auto-stake, a multiplier for
\* self-stake.
calculateVoteWeight(bucket, selfStake) ==
    bucket.stakedAmount
        * (1 + DurationDays(bucket.stakedDuration) + (IF bucket.autoStake THEN 1 ELSE 0))
        * (IF selfStake THEN 2 ELSE 1)

\* putBucket: stores the bucket under the next index and bumps the count.
putBucket(s, bucket) ==
    [s |-> [s EXCEPT !.buckets = Put(s.buckets, s.bucketCount, bucket),
                     !.bucketCount = @ + 1],
     index |-> s.bucketCount]

updateBucket(s, index, bucket) == [s EXCEPT !.buckets = Put(s.buckets, index, bucket)]
delBucket(s, index) == [s EXCEPT !.buckets = Del(s.buckets, index)]

putVoterBucketIndex(s, owner, index) == [s EXCEPT !.voterBuckets[owner] = @ \cup {index}]
delVoterBucketIndex(s, owner, index) == [s EXCEPT !.voterBuckets[owner] = @ \ {index}]
putCandBucketIndex(s, cand, index) == [s EXCEPT !.candBuckets[cand] = @ \cup {index}]
delCandBucketIndex(s, cand, index) == [s EXCEPT !.candBuckets[cand] = @ \ {index}]

\* putBucketAndIndex that forgets the candidate index.
putBucketAndIndex_NoCandIndex(s, bucket) ==
    LET p1 == putBucket(s, bucket)
        s2 == putVoterBucketIndex(p1.s, bucket.owner, p1.index)
    IN [s |-> s2, index |-> p1.index]

\* putBucketAndIndex
putBucketAndIndex(s, bucket) ==
    LET p1 == putBucket(s, bucket)
        s2 == putVoterBucketIndex(p1.s, bucket.owner, p1.index)
        s3 == putCandBucketIndex(s2, bucket.candidate, p1.index)
    IN [s |-> s3, index |-> p1.index]

\* ------------------------------------------------------------------ candidates
putCandidate(s, c) == [s EXCEPT !.candidates = Put(s.candidates, c.owner, c)]

\* Candidate.AddVote / SubVote / AddSelfStake; SubVote fails below zero.
AddVote(c, amount) == [c EXCEPT !.votes = @ + amount]
CanSubVote(c, amount) == c.votes >= amount
SubVote(c, amount) == [c EXCEPT !.votes = @ - amount]
AddSelfStake(c, amount) == [c EXCEPT !.selfStake = @ + amount]

\* The candidate center: getters return copies.
CenterHasName(center, name) == \E o \in DOMAIN center : center[o].name = name
GetByName(center, name) == center[CHOOSE o \in DOMAIN center : center[o].name = name]
CenterHasOwner(center, owner) == owner \in DOMAIN center
GetByOwner(center, owner) == center[owner]
ContainsSelfStakingBucket(center, index) ==
    \E o \in DOMAIN center : center[o].selfStakeBucketIdx = index

\* Upsert rejects a candidate that collides with another owner's candidate on
\* name, operator or self-stake bucket index; the same owner is an update.
UpsertCollision(center, c) ==
    \E o \in (DOMAIN center) \ {c.owner} :
        \/ center[o].name = c.name
        \/ center[o].operator = c.operator
        \/ center[o].selfStakeBucketIdx = c.selfStakeBucketIdx
Upsert(center, c) == Put(center, c.owner, c)

\* ------------------------------------------------------------------ logs
\* hash.Hash256b of a handler name or an address: an opaque digest of its input.
Hash256b(x) == <<"hash256", x>>

\* byteutil.Uint64ToBytes: 8 bytes, big endian.
RECURSIVE ShiftRightBytes(_, _)
ShiftRightBytes(n, k) == IF k = 0 THEN n ELSE ShiftRightBytes(n \div 256, k - 1)
Uint64ToBytes(n) ==
    [i \in 1..8 |-> ShiftRightBytes(n, 8 - i) % 256]

NoData == <<>>

\* createLog that never adds the topic of the candidate.
createLog_NoCandidateTopic(handlerName, candidateAddr, voterAddr, data) ==
    [topics |-> <<Hash256b(handlerName), Hash256b(voterAddr)>>, data |-> data]

\* createLog
createLog(handlerName, candidateAddr, voterAddr, data) ==
    [topics |-> <<Hash256b(handlerName)>>
                \o (IF candidateAddr # NilAddr THEN <<Hash256b(candidateAddr)>> ELSE <<>>)
                \o <<Hash256b(voterAddr)>>,
     data |-> data]

\* ------------------------------------------------------------------ results
\* A handler's outcome: the state it leaves, the receipt and the error.
Receipt(s, ctx, status, logs) ==
    [s |-> s, status |-> status, gasConsumed |-> ctx.intrinsicGas, logs |-> logs,
     err |-> NoError]
Fail(s, err) ==
    [s |-> s, status |-> NoReceipt, gasConsumed |-> 0, logs |-> <<>>, err |-> err]

\* fetchCaller that checks the balance against the amount alone.
fetchCaller_AmountOnly(s, ctx, amount) ==
    LET caller == LoadAccount(s, ctx.caller)
        gasFee == ctx.gasPrice * ctx.intrinsicGas
    IN IF amount > caller.balance
       THEN [status |-> ErrNotEnoughBalance,
             account |-> caller,
             gasFee |-> IF gasFee > caller.balance THEN caller.balance ELSE gasFee]
       ELSE [status |-> OK, account |-> caller, gasFee |-> gasFee]

\* fetchCaller that does not cap the gas fee at the balance.
fetchCaller_NoCap(s, ctx, amount) ==
    LET caller == LoadAccount(s, ctx.caller)
        gasFee == ctx.gasPrice * ctx.intrinsicGas
    IN IF amount + gasFee > caller.balance
       THEN [status |-> ErrNotEnoughBalance, account |-> caller, gasFee |-> gasFee]
       ELSE [status |-> OK, account |-> caller, gasFee |-> gasFee]

\* fetchCaller: the caller's account, the gas fee, and a failure status.
fetchCaller(s, ctx, amount) ==
    LET caller == LoadAccount(s, ctx.caller)
        gasFee == ctx.gasPrice * ctx.intrinsicGas
    IN IF amount + gasFee > caller.balance
       THEN [status |-> ErrNotEnoughBalance,
             account |-> caller,
             gasFee |-> IF gasFee > caller.balance THEN caller.balance ELSE gasFee]
       ELSE [status |-> OK, account |-> caller, gasFee |-> gasFee]

\* settleAction that checks the block gas limit after it has settled.
settleAction_LateGasCheck(s, ctx, status, gasFee, logs) ==
    LET s1 == depositGas(s, ctx, gasFee)
        s2 == increaseNonce(s1, ctx.caller, ctx.nonce)
    IN IF ctx.gasLimit < ctx.intrinsicGas
       THEN Fail(s2, "ErrHitGasLimit")
       ELSE Receipt(s2, ctx, status, logs)

\* settleAction: deposits the gas fee and updates the caller's nonce.
settleAction(s, ctx, status, gasFee, logs) ==
    IF ctx.gasLimit < ctx.intrinsicGas
    THEN Fail(s, "ErrHitGasLimit")
    ELSE LET s1 == depositGas(s, ctx, gasFee)
             s2 == increaseNonce(s1, ctx.caller, ctx.nonce)
         IN Receipt(s2, ctx, status, logs)

\* The tail without the Upsert into the center.
settleAndUpsert_NoUpsert(s, ctx, gasFee, log, c) ==
    settleAction(s, ctx, Success, gasFee, <<log>>)

\* The tail with an Upsert that accepts every candidate.
settleAndUpsert_IgnoreCollision(s, ctx, gasFee, log, c) ==
    LET r == settleAction(s, ctx, Success, gasFee, <<log>>)
    IN IF r.err # NoError THEN r
       ELSE [r EXCEPT !.s.inMemCandidates = Upsert(@, c)]

\* Settlement that puts the candidate into the center before it settles.
settleAndUpsert_UpsertFirst(s, ctx, gasFee, log, c) ==
    LET s1 == [s EXCEPT !.inMemCandidates = Upsert(@, c)]
    IN settleAction(s1, ctx, Success, gasFee, <<log>>)

\* Tail shared by the handlers that update the center: settle with Success,
\* then Upsert the candidate into p.inMemCandidates.
settleAndUpsert(s, ctx, gasFee, log, c) ==
    LET r == settleAction(s, ctx, Success, gasFee, <<log>>)
    IN IF r.err # NoError THEN r
       ELSE IF UpsertCollision(r.s.inMemCandidates, c)
       THEN Fail(r.s, "ErrCandidateConflict")
       ELSE [r EXCEPT !.s.inMemCandidates = Upsert(@, c)]

\* fetchBucket that lets every caller through to a self-staking bucket.
fetchBucket_AnySelfStaking(s, ctx, index, checkOwner, allowSelfStaking) ==
    IF index \notin DOMAIN s.buckets
    THEN [status |-> ErrInvalidBucketIndex, err |-> "ErrStateNotExist"]
    ELSE LET bucket == s.buckets[index]
         IN IF checkOwner /\ bucket.owner # ctx.caller
            THEN [status |-> ErrUnauthorizedOperator, err |-> "owner does not match caller"]
            ELSE [status |-> OK, bucket |-> bucket, err |-> NoError]

\* getBucket: the bucket stored at index, or state.ErrStateNotExist.
getBucket(s, index) ==
    IF index \in DOMAIN s.buckets
    THEN [err |-> NoError, bucket |-> s.buckets[index]]
    ELSE [err |-> "ErrStateNotExist"]

\* The checks of fetchBucket with the owner check left out.
fetchBucketOf_NoOwnerCheck(load, s, ctx, index, checkOwner, allowSelfStaking) ==
    IF load.err # NoError
    THEN [status |-> IF load.err = "ErrStateNotExist" THEN ErrInvalidBucketIndex
                     ELSE Failure,
          err |-> load.err]
    ELSE IF ~allowSelfStaking /\ ContainsSelfStakingBucket(s.inMemCandidates, index)
    THEN [status |-> ErrInvalidBucketType, err |-> "self staking bucket"]
    ELSE [status |-> OK, bucket |-> load.bucket, err |-> NoError]

\* fetchBucket from the result of getBucket on.
fetchBucketOf(load, s, ctx, index, checkOwner, allowSelfStaking) ==
    IF load.err # NoError
    THEN [status |-> IF load.err = "ErrStateNotExist" THEN ErrInvalidBucketIndex
                     ELSE Failure,
          err |-> load.err]
    ELSE IF checkOwner /\ load.bucket.owner # ctx.caller
    THEN [status |-> ErrUnauthorizedOperator, err |-> "owner does not match caller"]
    ELSE IF ~allowSelfStaking /\ ContainsSelfStakingBucket(s.inMemCandidates, index)
    THEN [status |-> ErrInvalidBucketType, err |-> "self staking bucket"]
    ELSE [status |-> OK, bucket |-> load.bucket, err |-> NoError]

\* fetchBucket
fetchBucket(s, ctx, index, checkOwner, allowSelfStaking) ==
    fetchBucketOf(getBucket(s, index), s, ctx, index, checkOwner, allowSelfStaking)

\* What every handler does with a fetchError: a Failure status returns the
\* error and no receipt, any other status is settled into a receipt.
settleFetchError(s, ctx, fetchErr, gasFee) ==
    IF fetchErr.status = Failure THEN Fail(s, fetchErr.err)
    ELSE settleAction(s, ctx, fetchErr.status, gasFee, <<>>)

\* ------------------------------------------------------------------ handlers
\* handleCreateStake
handleCreateStake(s, ctx, act) ==
    LET fc == fetchCaller(s, ctx, act.amount)
    IN IF fc.status # OK THEN settleFetchError(s, ctx, fc, fc.gasFee)
       ELSE IF ~CenterHasName(s.inMemCandidates, act.candidate)
       THEN settleAction(s, ctx, ErrCandidateNotExist, fc.gasFee, <<>>)
       ELSE
       LET candidate == GetByName(s.inMemCandidates, act.candidate)
           bucket == NewVoteBucket(candidate.owner, ctx.caller, act.amount,
                                   act.duration, ctx.blockTimeStamp, act.autoStake)
           pb == putBucketAndIndex(s, bucket)
           weightedVote == calculateVoteWeight(bucket, FALSE)
           candidate1 == AddVote(candidate, weightedVote)
           s1 == putCandidate(pb.s, candidate1)
           staker == fc.account
       IN IF act.amount > staker.balance THEN Fail(s1, "ErrNotEnoughBalance")
          ELSE
          LET s2 == StoreAccount(s1, ctx.caller,
                                 [staker EXCEPT !.balance = @ - act.amount])
              log == createLog("createStake", candidate.owner, ctx.caller,
                               Uint64ToBytes(pb.index))
          IN settleAndUpsert(s2, ctx, fc.gasFee, log, candidate1)

\* An owner that is always the caller.
effectiveOwner_Caller(ctx, act) == ctx.caller

\* handleCandidateRegister: the owner field when it is set, else the caller.
effectiveOwner(ctx, act) ==
    IF act.ownerAddress # NilAddr THEN act.ownerAddress ELSE ctx.caller

\* handleCandidateRegister
handleCandidateRegister(s, ctx, act) ==
    LET registrationFee == config.registrationFee
        fc == fetchCaller(s, ctx, act.amount + registrationFee)
    IN IF fc.status # OK THEN settleFetchError(s, ctx, fc, fc.gasFee)
       ELSE
       LET owner == effectiveOwner(ctx, act)
           bucket == NewVoteBucket(owner, owner, act.amount, act.duration,
                                   ctx.blockTimeStamp, act.autoStake)
           pb == putBucketAndIndex(s, bucket)
           c == [owner |-> owner, operator |-> act.operatorAddress,
                 reward |-> act.rewardAddress, name |-> act.name,
                 votes |-> calculateVoteWeight(bucket, TRUE),
                 selfStakeBucketIdx |-> pb.index, selfStake |-> act.amount]
           s1 == putCandidate(pb.s, c)
           caller == fc.account
       IN IF act.amount > caller.balance THEN Fail(s1, "ErrNotEnoughBalance")
          ELSE
          LET s2 == StoreAccount(s1, ctx.caller,
                                 [caller EXCEPT !.balance = @ - act.amount])
              s3 == depositGas(s2, ctx, registrationFee)
              log == createLog("candidateRegister", owner, ctx.caller,
                               Uint64ToBytes(pb.index))
          IN settleAndUpsert(s3, ctx, fc.gasFee, log, c)

\* A candidate whose self-stake survives the unstake of its bucket.
clearSelfStake_Never(c, isSelf) == c

\* handleUnstake: clear candidate's self stake if the bucket is self staking.
clearSelfStake(c, isSelf) == IF isSelf THEN [c EXCEPT !.selfStake = 0] ELSE c

\* handleUnstake
handleUnstake(s, ctx, act) ==
    LET fc == fetchCaller(s, ctx, 0)
    IN IF fc.status # OK THEN settleFetchError(s, ctx, fc, fc.gasFee)
       ELSE
       LET fb == fetchBucket(s, ctx, act.bucketIndex, TRUE, TRUE)
       IN IF fb.status # OK THEN settleFetchError(s, ctx, fb, fc.gasFee)
          ELSE
          LET bucket == [fb.bucket EXCEPT !.unstakeStartTime = ctx.blockTimeStamp]
              s1 == updateBucket(s, act.bucketIndex, bucket)
              isSelf == ContainsSelfStakingBucket(s.inMemCandidates, act.bucketIndex)
          IN IF ~CenterHasOwner(s.inMemCandidates, bucket.candidate)
             THEN Fail(s1, "ErrInvalidOwner")
             ELSE
             LET candidate == GetByOwner(s.inMemCandidates, bucket.candidate)
                 weightedVote == calculateVoteWeight(bucket, isSelf)
             IN IF ~CanSubVote(candidate, weightedVote) THEN Fail(s1, "ErrInvalidAmount")
                ELSE
                LET c1 == SubVote(candidate, weightedVote)
                    c2 == clearSelfStake(c1, isSelf)
                    s2 == putCandidate(s1, c2)
                    log == createLog("unstake", NilAddr, ctx.caller, NoData)
                IN settleAndUpsert(s2, ctx, fc.gasFee, log, c2)

\* The unstake-time check with the maturity instant itself still refused.
withdrawTimeCheck_Strict(bucket, ctx) ==
    IF bucket.unstakeStartTime = 0 THEN ErrWithdrawBeforeUnstake
    ELSE IF ctx.blockTimeStamp <= bucket.unstakeStartTime + config.withdrawWaitingPeriod
    THEN ErrWithdrawBeforeMaturity
    ELSE OK

\* handleWithdrawStake, "check unstake time": UnstakeStartTime.Unix() == 0,
\* then BlockTimeStamp.Before(UnstakeStartTime.Add(WithdrawWaitingPeriod)).
withdrawTimeCheck(bucket, ctx) ==
    IF bucket.unstakeStartTime = 0 THEN ErrWithdrawBeforeUnstake
    ELSE IF ctx.blockTimeStamp < bucket.unstakeStartTime + config.withdrawWaitingPeriod
    THEN ErrWithdrawBeforeMaturity
    ELSE OK

\* The deletion without the credit of the staked amount.
withdrawCommit_NoCredit(s, ctx, act, fc, bucket) ==
    LET s1 == delBucket(s, act.bucketIndex)
        s2 == delCandBucketIndex(s1, bucket.candidate, act.bucketIndex)
        s3 == delVoterBucketIndex(s2, bucket.owner, act.bucketIndex)
        log == createLog("withdrawStake", NilAddr, ctx.caller, NoData)
    IN settleAction(s3, ctx, Success, fc.gasFee, <<log>>)

\* The deletion with the bucket count taken back to the deleted index, so that
\* the next bucket is stored under it again.
withdrawCommit_ReuseIndex(s, ctx, act, fc, bucket) ==
    LET s1 == [delBucket(s, act.bucketIndex) EXCEPT !.bucketCount = act.bucketIndex]
        s2 == delCandBucketIndex(s1, bucket.candidate, act.bucketIndex)
        s3 == delVoterBucketIndex(s2, bucket.owner, act.bucketIndex)
        withdrawer == [fc.account EXCEPT !.balance = @ + bucket.stakedAmount]
        s4 == StoreAccount(s3, ctx.caller, withdrawer)
        log == createLog("withdrawStake", NilAddr, ctx.caller, NoData)
    IN settleAction(s4, ctx, Success, fc.gasFee, <<log>>)

\* handleWithdrawStake from "delete bucket and bucket index" on.
withdrawCommit(s, ctx, act, fc, bucket) ==
    LET s1 == delBucket(s, act.bucketIndex)
        s2 == delCandBucketIndex(s1, bucket.candidate, act.bucketIndex)
        s3 == delVoterBucketIndex(s2, bucket.owner, act.bucketIndex)
        withdrawer == [fc.account EXCEPT !.balance = @ + bucket.stakedAmount]
        s4 == StoreAccount(s3, ctx.caller, withdrawer)
        log == createLog("withdrawStake", NilAddr, ctx.caller, NoData)
    IN settleAction(s4, ctx, Success, fc.gasFee, <<log>>)

\* handleWithdrawStake with the bucket deleted before the unstake time is checked.
handleWithdrawStake_DeleteFirst(s, ctx, act) ==
    LET fc == fetchCaller(s, ctx, 0)
    IN IF fc.status # OK THEN settleFetchError(s, ctx, fc, fc.gasFee)
       ELSE
       LET fb == fetchBucket(s, ctx, act.bucketIndex, TRUE, TRUE)
       IN IF fb.status # OK THEN settleFetchError(s, ctx, fb, fc.gasFee)
          ELSE IF withdrawTimeCheck(fb.bucket, ctx) # OK
          THEN settleAction(delBucket(s, act.bucketIndex), ctx,
                            withdrawTimeCheck(fb.bucket, ctx), fc.gasFee, <<>>)
          ELSE withdrawCommit(s, ctx, act, fc, fb.bucket)

\* handleWithdrawStake
handleWithdrawStake(s, ctx, act) ==
    LET fc == fetchCaller(s, ctx, 0)
    IN IF fc.status # OK THEN settleFetchError(s, ctx, fc, fc.gasFee)
       ELSE
       LET fb == fetchBucket(s, ctx, act.bucketIndex, TRUE, TRUE)
       IN IF fb.status # OK THEN settleFetchError(s, ctx, fb, fc.gasFee)
          ELSE IF withdrawTimeCheck(fb.bucket, ctx) # OK
          THEN settleAction(s, ctx, withdrawTimeCheck(fb.bucket, ctx), fc.gasFee, <<>>)
          ELSE withdrawCommit(s, ctx, act, fc, fb.bucket)

\* The weight a changeCandidate moves, counted as if the bucket were a
\* self-staking one.
changeWeight_AsSelfStake(bucket) == calculateVoteWeight(bucket, TRUE)

\* handleChangeCandidate: weightedVotes := p.calculateVoteWeight(bucket, false)
changeWeight(bucket) == calculateVoteWeight(bucket, FALSE)

\* handleChangeCandidate
handleChangeCandidate(s, ctx, act) ==
    LET fc == fetchCaller(s, ctx, 0)
    IN IF fc.status # OK THEN settleFetchError(s, ctx, fc, fc.gasFee)
       ELSE IF ~CenterHasName(s.inMemCandidates, act.candidate)
       THEN settleAction(s, ctx, ErrCandidateNotExist, fc.gasFee, <<>>)
       ELSE
       LET candidate == GetByName(s.inMemCandidates, act.candidate)
           fb == fetchBucket(s, ctx, act.bucketIndex, TRUE, FALSE)
       IN IF fb.status # OK THEN settleFetchError(s, ctx, fb, fc.gasFee)
          ELSE IF ~CenterHasOwner(s.inMemCandidates, fb.bucket.candidate)
          THEN Fail(s, "ErrInvalidOwner")
          ELSE
          LET prevCandidate == GetByOwner(s.inMemCandidates, fb.bucket.candidate)
              s1 == delCandBucketIndex(s, fb.bucket.candidate, act.bucketIndex)
              s2 == putCandBucketIndex(s1, candidate.owner, act.bucketIndex)
              bucket == [fb.bucket EXCEPT !.candidate = candidate.owner]
              s3 == updateBucket(s2, act.bucketIndex, bucket)
              weightedVotes == changeWeight(bucket)
          IN IF ~CanSubVote(prevCandidate, weightedVotes) THEN Fail(s3, "ErrInvalidAmount")
             ELSE
             LET prev1 == SubVote(prevCandidate, weightedVotes)
                 s4 == putCandidate(s3, prev1)
                 cand1 == AddVote(candidate, weightedVotes)
                 s5 == putCandidate(s4, cand1)
                 log == createLog("changeCandidate", candidate.owner, ctx.caller, NoData)
                 r == settleAction(s5, ctx, Success, fc.gasFee, <<log>>)
             IN IF r.err # NoError THEN r
                ELSE IF UpsertCollision(r.s.inMemCandidates, prev1)
                THEN Fail(r.s, "ErrCandidateConflict")
                ELSE
                LET r1 == [r EXCEPT !.s.inMemCandidates = Upsert(@, prev1)]
                IN IF UpsertCollision(r1.s.inMemCandidates, cand1)
                   THEN Fail(r1.s, "ErrCandidateConflict")
                   ELSE [r1 EXCEPT !.s.inMemCandidates = Upsert(@, cand1)]

\* handleTransferStake that recomputes nothing but also leaves the index of
\* the previous owner as it was.
handleTransferStake_KeepOldIndex(s, ctx, act) ==
    LET fc == fetchCaller(s, ctx, 0)
    IN IF fc.status # OK THEN settleFetchError(s, ctx, fc, fc.gasFee)
       ELSE
       LET fb == fetchBucket(s, ctx, act.bucketIndex, TRUE, FALSE)
       IN IF fb.status # OK THEN settleFetchError(s, ctx, fb, fc.gasFee)
          ELSE
          LET s2 == putVoterBucketIndex(s, act.voterAddress, act.bucketIndex)
              bucket == [fb.bucket EXCEPT !.owner = act.voterAddress]
              s3 == updateBucket(s2, act.bucketIndex, bucket)
              log == createLog("transferStake", NilAddr, ctx.caller, NoData)
          IN settleAction(s3, ctx, Success, fc.gasFee, <<log>>)

\* handleTransferStake
handleTransferStake(s, ctx, act) ==
    LET fc == fetchCaller(s, ctx, 0)
    IN IF fc.status # OK THEN settleFetchError(s, ctx, fc, fc.gasFee)
       ELSE
       LET fb == fetchBucket(s, ctx, act.bucketIndex, TRUE, FALSE)
       IN IF fb.status # OK THEN settleFetchError(s, ctx, fb, fc.gasFee)
          ELSE
          LET s1 == delVoterBucketIndex(s, fb.bucket.owner, act.bucketIndex)
              s2 == putVoterBucketIndex(s1, act.voterAddress, act.bucketIndex)
              bucket == [fb.bucket EXCEPT !.owner = act.voterAddress]
              s3 == updateBucket(s2, act.bucketIndex, bucket)
              log == createLog("transferStake", NilAddr, ctx.caller, NoData)
          IN settleAction(s3, ctx, Success, fc.gasFee, <<log>>)

\* A deposit accepted by every bucket.
depositAllowed_Always(bucket) == TRUE

\* handleDepositToStake: deposit is only allowed on an auto-stake bucket.
depositAllowed(bucket) == bucket.autoStake

\* handleDepositToStake
handleDepositToStake(s, ctx, act) ==
    LET fc == fetchCaller(s, ctx, act.amount)
    IN IF fc.status # OK THEN settleFetchError(s, ctx, fc, fc.gasFee)
       ELSE
       LET fb == fetchBucket(s, ctx, act.bucketIndex, FALSE, TRUE)
       IN IF fb.status # OK THEN settleFetchError(s, ctx, fb, fc.gasFee)
          ELSE IF ~depositAllowed(fb.bucket)
          THEN settleAction(s, ctx, ErrInvalidBucketType, fc.gasFee, <<>>)
          ELSE IF ~CenterHasOwner(s.inMemCandidates, fb.bucket.candidate)
          THEN Fail(s, "ErrInvalidOwner")
          ELSE
          LET candidate == GetByOwner(s.inMemCandidates, fb.bucket.candidate)
              isSelf == ContainsSelfStakingBucket(s.inMemCandidates, act.bucketIndex)
              prevWeightedVotes == calculateVoteWeight(fb.bucket, isSelf)
              bucket == [fb.bucket EXCEPT !.stakedAmount = @ + act.amount]
              s1 == updateBucket(s, act.bucketIndex, bucket)
          IN IF ~CanSubVote(candidate, prevWeightedVotes) THEN Fail(s1, "ErrInvalidAmount")
             ELSE
             LET c1 == SubVote(candidate, prevWeightedVotes)
                 weightedVotes == calculateVoteWeight(bucket, isSelf)
                 c2 == AddVote(c1, weightedVotes)
                 c3 == IF isSelf THEN AddSelfStake(c2, act.amount) ELSE c2
                 s2 == putCandidate(s1, c3)
                 depositor == fc.account
             IN IF act.amount > depositor.balance THEN Fail(s2, "ErrNotEnoughBalance")
                ELSE
                LET s3 == StoreAccount(s2, ctx.caller,
                                       [depositor EXCEPT !.balance = @ - act.amount])
                    log == createLog("depositToStake", NilAddr, ctx.caller, NoData)
                IN settleAndUpsert(s3, ctx, fc.gasFee, log, c3)

\* Restake that adds back the weight the bucket had before the update.
handleRestake_StaleWeight(s, ctx, act) ==
    LET fc == fetchCaller(s, ctx, 0)
    IN IF fc.status # OK THEN settleFetchError(s, ctx, fc, fc.gasFee)
       ELSE
       LET fb == fetchBucket(s, ctx, act.bucketIndex, TRUE, TRUE)
       IN IF fb.status # OK THEN settleFetchError(s, ctx, fb, fc.gasFee)
          ELSE IF ~CenterHasOwner(s.inMemCandidates, fb.bucket.candidate)
          THEN Fail(s, "ErrInvalidOwner")
          ELSE
          LET candidate == GetByOwner(s.inMemCandidates, fb.bucket.candidate)
              isSelf == ContainsSelfStakingBucket(s.inMemCandidates, act.bucketIndex)
              prevWeightedVotes == calculateVoteWeight(fb.bucket, isSelf)
              bucket == [fb.bucket EXCEPT !.stakedDuration = DaysToDuration(act.duration),
                                          !.autoStake = act.autoStake]
              s1 == updateBucket(s, act.bucketIndex, bucket)
          IN IF ~CanSubVote(candidate, prevWeightedVotes) THEN Fail(s1, "ErrInvalidAmount")
             ELSE
             LET c1 == SubVote(candidate, prevWeightedVotes)
                 weightedVotes == calculateVoteWeight(fb.bucket, isSelf)
                 c2 == AddVote(c1, weightedVotes)
                 s2 == putCandidate(s1, c2)
                 log == createLog("restake", NilAddr, ctx.caller, NoData)
             IN settleAndUpsert(s2, ctx, fc.gasFee, log, c2)

\* handleRestake
handleRestake(s, ctx, act) ==
    LET fc == fetchCaller(s, ctx, 0)
    IN IF fc.status # OK THEN settleFetchError(s, ctx, fc, fc.gasFee)
       ELSE
       LET fb == fetchBucket(s, ctx, act.bucketIndex, TRUE, TRUE)
       IN IF fb.status # OK THEN settleFetchError(s, ctx, fb, fc.gasFee)
          ELSE IF ~CenterHasOwner(s.inMemCandidates, fb.bucket.candidate)
          THEN Fail(s, "ErrInvalidOwner")
          ELSE
          LET candidate == GetByOwner(s.inMemCandidates, fb.bucket.candidate)
              isSelf == ContainsSelfStakingBucket(s.inMemCandidates, act.bucketIndex)
              prevWeightedVotes == calculateVoteWeight(fb.bucket, isSelf)
              bucket == [fb.bucket EXCEPT !.stakedDuration = DaysToDuration(act.duration),
                                          !.autoStake = act.autoStake]
              s1 == updateBucket(s, act.bucketIndex, bucket)
          IN IF ~CanSubVote(candidate, prevWeightedVotes) THEN Fail(s1, "ErrInvalidAmount")
             ELSE
             LET c1 == SubVote(candidate, prevWeightedVotes)
                 weightedVotes == calculateVoteWeight(bucket, isSelf)
                 c2 == AddVote(c1, weightedVotes)
                 s2 == putCandidate(s1, c2)
                 log == createLog("restake", NilAddr, ctx.caller, NoData)
             IN settleAndUpsert(s2, ctx, fc.gasFee, log, c2)

\* An update that takes the name of the action even when it is empty.
updateFields_AlwaysName(c, act) ==
    LET c1 == [c EXCEPT !.name = act.name]
        c2 == IF act.operatorAddress # NilAddr
              THEN [c1 EXCEPT !.operator = act.operatorAddress] ELSE c1
    IN IF act.rewardAddress # NilAddr
       THEN [c2 EXCEPT !.reward = act.rewardAddress] ELSE c2

\* handleCandidateUpdate: the fields of the action that are set overwrite
\* those of the candidate.
updateFields(c, act) ==
    LET c1 == IF act.name # NoName THEN [c EXCEPT !.name = act.name] ELSE c
        c2 == IF act.operatorAddress # NilAddr
              THEN [c1 EXCEPT !.operator = act.operatorAddress] ELSE c1
    IN IF act.rewardAddress # NilAddr
       THEN [c2 EXCEPT !.reward = act.rewardAddress] ELSE c2

\* handleCandidateUpdate
handleCandidateUpdate(s, ctx, act) ==
    LET fc == fetchCaller(s, ctx, 0)
    IN IF fc.status # OK THEN settleFetchError(s, ctx, fc, fc.gasFee)
       ELSE IF ~CenterHasOwner(s.inMemCandidates, ctx.caller)
       THEN settleAction(s, ctx, ErrCandidateNotExist, fc.gasFee, <<>>)
       ELSE
       LET c == GetByOwner(s.inMemCandidates, ctx.caller)
           c3 == updateFields(c, act)
           s1 == putCandidate(s, c3)
           log == createLog("candidateUpdate", NilAddr, ctx.caller, NoData)
       IN settleAndUpsert(s1, ctx, fc.gasFee, log, c3)

\* ------------------------------------------------------------------ trie nodes
\* Merkle Patricia trie (db/trie/merklepatriciatree).  Keys are byte strings
\* of the configured length; a node is a leaf (the whole key and its value),
\* an extension (a path and the hash of its child) or a branch (one child
\* hash per byte that has a child).  Nodes are stored in the KV store under
\* the hash of their serialization and refer to their children by hash.
Bytes == {0, 1}
keyLength == 4                       \* KeyLengthOption(4)
Values == {"v1", "v2"}
NilNode == [kind |-> "nil"]
ErrNotExist == "ErrNotExist"         \* trie.ErrNotExist
ErrInvalidTrie == "ErrInvalidTrie"   \* trie.ErrInvalidTrie
ErrInvalidKeyLength == "invalid key length"
ErrKVNotFound == "failed to get key" \* kvStore.Get of a key that is not stored

\* DefaultHashFunc: the 160-bit digest of the serialized node.
DefaultHashFunc(data) == <<"hash160", data>>

\* The serialization of a node: a tagged union of leaf, branch and extension.
\* The root flag of a branch is not part of it.
Serialize(n) ==
    CASE n.kind = "leaf" -> <<"leaf", n.key, n.value>>
      [] n.kind = "extend" -> <<"extend", n.path, n.child>>
      [] n.kind = "branch" -> <<"branch", n.children>>

\* node.Hash()
NodeHash(n) == DefaultHashFunc(Serialize(n))

newLeafNode(key, value) == [kind |-> "leaf", key |-> key, value |-> value]
newExtensionNode(path, child) == [kind |-> "extend", path |-> path, child |-> child]
newBranchNode(children, isRoot) ==
    [kind |-> "branch", children |-> children, isRoot |-> isRoot]
\* newEmptyRootBranchNode: a root branch without children; it is not stored.
newEmptyRootBranchNode == newBranchNode(<<>>, TRUE)

\* mpt.putNode
putNode(kv, key, value) == Put(kv, key, value)

\* mpt.deleteNode
deleteNode(kv, key) == Del(kv, key)

\* A new node written to the KV store under its hash.
StoreNode(kv, n) == putNode(kv, NodeHash(n), Serialize(n))

\* A node replaced by a new one: it remains in the KV store.
RetireNode(kv, n) == kv

\* mpt.loadNode: the node stored under key, or the error of kvStore.Get.
loadNode(kv, key) ==
    IF key \notin DOMAIN kv THEN [err |-> ErrKVNotFound]
    ELSE LET s == kv[key]
         IN CASE s[1] = "branch" -> [err |-> NoError, node |-> newBranchNode(s[2], FALSE)]
              [] s[1] = "leaf" -> [err |-> NoError, node |-> newLeafNode(s[2], s[3])]
              [] s[1] = "extend" -> [err |-> NoError, node |-> newExtensionNode(s[2], s[3])]
              [] OTHER -> [err |-> "invalid node type"]

\* key[offset:] of a 0-based offset, and the length of the common prefix.
Suffix(key, offset) == SubSeq(key, offset + 1, Len(key))
RECURSIVE commonPrefixLength(_, _)
commonPrefixLength(a, b) ==
    IF a = <<>> \/ b = <<>> \/ Head(a) # Head(b) THEN 0
    ELSE 1 + commonPrefixLength(Tail(a), Tail(b))

\* node.Search(key, offset): the leaf of key below n, or ErrNotExist.
RECURSIVE Search(_, _, _, _)
Search(kv, n, key, offset) ==
    CASE n.kind = "leaf" ->
             IF Suffix(n.key, offset) = Suffix(key, offset)
             THEN [err |-> NoError, node |-> n]
             ELSE [err |-> ErrNotExist]
      [] n.kind = "extend" ->
             IF commonPrefixLength(n.path, Suffix(key, offset)) # Len(n.path)
             THEN [err |-> ErrNotExist]
             ELSE LET c == loadNode(kv, n.child)
                  IN IF c.err # NoError THEN [err |-> c.err]
                     ELSE Search(kv, c.node, key, offset + Len(n.path))
      [] n.kind = "branch" ->
             IF offset >= Len(key) \/ key[offset + 1] \notin DOMAIN n.children
             THEN [err |-> ErrNotExist]
             ELSE LET c == loadNode(kv, n.children[key[offset + 1]])
                  IN IF c.err # NoError THEN [err |-> c.err]
                     ELSE Search(kv, c.node, key, offset + 1)

\* A node that takes the place of `old`: old is retired, the new one stored.
Replace(kv, old, new) == [err |-> NoError, kv |-> StoreNode(RetireNode(kv, old), new), node |-> new]

\* node.Upsert(key, offset, value): the node that replaces n, and the KV store
\* with the new nodes of the path written to it.
RECURSIVE NodeUpsert(_, _, _, _, _)
NodeUpsert(kv, n, key, offset, value) ==
    CASE n.kind = "leaf" ->
             LET matched == commonPrefixLength(Suffix(n.key, offset), Suffix(key, offset))
                 newl == newLeafNode(key, value)
             IN IF offset + matched = Len(key) THEN Replace(kv, n, newl)
                ELSE LET kv1 == StoreNode(kv, newl)
                         bnode == newBranchNode(
                                      Put(Put(<<>>, key[offset + matched + 1], NodeHash(newl)),
                                          n.key[offset + matched + 1], NodeHash(n)),
                                      FALSE)
                         kv2 == StoreNode(kv1, bnode)
                     IN IF matched = 0 THEN [err |-> NoError, kv |-> kv2, node |-> bnode]
                        ELSE LET e == newExtensionNode(
                                          SubSeq(n.key, offset + 1, offset + matched),
                                          NodeHash(bnode))
                             IN [err |-> NoError, kv |-> StoreNode(kv2, e), node |-> e]
      [] n.kind = "extend" ->
             LET matched == commonPrefixLength(n.path, Suffix(key, offset))
             IN IF matched = Len(n.path)
                THEN LET c == loadNode(kv, n.child)
                     IN IF c.err # NoError THEN [err |-> c.err]
                        ELSE LET r == NodeUpsert(kv, c.node, key, offset + matched, value)
                             IN IF r.err # NoError THEN r
                                ELSE Replace(r.kv, n,
                                             newExtensionNode(n.path, NodeHash(r.node)))
                ELSE LET rest == SubSeq(n.path, matched + 2, Len(n.path))
                         enode == newExtensionNode(rest, n.child)
                         kv1 == IF rest = <<>> THEN RetireNode(kv, n)
                                ELSE StoreNode(RetireNode(kv, n), enode)
                         ehash == IF rest = <<>> THEN n.child ELSE NodeHash(enode)
                         lnode == newLeafNode(key, value)
                         kv2 == StoreNode(kv1, lnode)
                         bnode == newBranchNode(
                                      Put(Put(<<>>, n.path[matched + 1], ehash),
                                          key[offset + matched + 1], NodeHash(lnode)),
                                      FALSE)
                         kv3 == StoreNode(kv2, bnode)
                     IN IF matched = 0 THEN [err |-> NoError, kv |-> kv3, node |-> bnode]
                        ELSE LET e == newExtensionNode(SubSeq(n.path, 1, matched),
                                                       NodeHash(bnode))
                             IN [err |-> NoError, kv |-> StoreNode(kv3, e), node |-> e]
      [] n.kind = "branch" ->
             LET b == key[offset + 1]
             IN IF b \notin DOMAIN n.children
                THEN LET l == newLeafNode(key, value)
                     IN Replace(StoreNode(kv, l), n,
                                newBranchNode(Put(n.children, b, NodeHash(l)), n.isRoot))
                ELSE LET c == loadNode(kv, n.children[b])
                     IN IF c.err # NoError THEN [err |-> c.err]
                        ELSE LET r == NodeUpsert(kv, c.node, key, offset + 1, value)
                             IN IF r.err # NoError THEN r
                                ELSE Replace(r.kv, n,
                                             newBranchNode(
                                                 Put(n.children, b, NodeHash(r.node)),
                                                 n.isRoot))

\* node.Delete(key, offset): the node that replaces n (NilNode when nothing is
\* left of it), or ErrNotExist.  A branch other than the root that is left
\* with one child collapses into that child: a leaf stays a leaf, an extension
\* takes the byte of the branch in front of its path, a branch gets an
\* extension of that one byte; extensions in a row are merged.
RECURSIVE NodeDelete(_, _, _, _)
NodeDelete(kv, n, key, offset) ==
    CASE n.kind = "leaf" ->
             IF Suffix(n.key, offset) # Suffix(key, offset) THEN [err |-> ErrNotExist]
             ELSE [err |-> NoError, kv |-> RetireNode(kv, n), node |-> NilNode]
      [] n.kind = "extend" ->
             IF commonPrefixLength(n.path, Suffix(key, offset)) # Len(n.path)
             THEN [err |-> ErrNotExist]
             ELSE LET c == loadNode(kv, n.child)
                  IN IF c.err # NoError THEN [err |-> c.err]
                     ELSE LET r == NodeDelete(kv, c.node, key, offset + Len(n.path))
                          IN IF r.err # NoError THEN r
                             ELSE (CASE r.node.kind = "nil" ->
                                           [err |-> NoError, kv |-> RetireNode(r.kv, n),
                                            node |-> NilNode]
                                    [] r.node.kind = "leaf" ->
                                           [err |-> NoError, kv |-> RetireNode(r.kv, n),
                                            node |-> r.node]
                                    [] r.node.kind = "extend" ->
                                           Replace(r.kv, n,
                                                   newExtensionNode(n.path \o r.node.path,
                                                                    r.node.child))
                                    [] r.node.kind = "branch" ->
                                           Replace(r.kv, n,
                                                   newExtensionNode(n.path, NodeHash(r.node))))
      [] n.kind = "branch" ->
             LET b == key[offset + 1]
             IN IF b \notin DOMAIN n.children THEN [err |-> ErrNotExist]
                ELSE LET child == loadNode(kv, n.children[b])
                     IN IF child.err # NoError THEN [err |-> child.err]
                        ELSE
                        LET sub == NodeDelete(kv, child.node, key, offset + 1)
                        IN IF sub.err # NoError THEN sub
                           ELSE IF sub.node.kind # "nil"
                           THEN Replace(sub.kv, n,
                                        newBranchNode(Put(n.children, b, NodeHash(sub.node)),
                                                      n.isRoot))
                           ELSE IF n.isRoot \/ Cardinality(DOMAIN n.children) > 2
                           THEN LET nb == newBranchNode(Del(n.children, b), n.isRoot)
                                IN IF nb.children = <<>>
                                   THEN [err |-> NoError, kv |-> RetireNode(sub.kv, n),
                                         node |-> nb]
                                   ELSE Replace(sub.kv, n, nb)
                           ELSE
                           LET orphanKey == CHOOSE x \in DOMAIN n.children : x # b
                               orphan == loadNode(sub.kv, n.children[orphanKey])
                           IN IF orphan.err # NoError THEN [err |-> orphan.err]
                              ELSE CASE orphan.node.kind = "extend" ->
                                            Replace(RetireNode(sub.kv, orphan.node), n,
                                                    newExtensionNode(
                                                        <<orphanKey>> \o orphan.node.path,
                                                        orphan.node.child))
                                     [] orphan.node.kind = "leaf" ->
                                            [err |-> NoError, kv |-> RetireNode(sub.kv, n),
                                             node |-> orphan.node]
                                     [] orphan.node.kind = "branch" ->
                                            Replace(sub.kv, n,
                                                    newExtensionNode(<<orphanKey>>,
                                                                     n.children[orphanKey]))

\* ------------------------------------------------------------------ trie
NilBytes == <<>>                     \* a nil or empty byte string
NoThread == "none"

\* New: the trie before Start, with an in-memory KV store and no root hash.
New ==
    [keyLength |-> keyLength, root |-> NilNode, rootHash |-> NilBytes,
     emptyRootHash |-> NilBytes, kvStore |-> <<>>,
     mutex |-> [writer |-> NoThread, readers |-> {}]]

\* RootHashOption: the root hash the trie is to start from.
RootHashOption(t, h) == [t EXCEPT !.rootHash = h]

\* KVStoreOption: the KV store the trie reads and writes.
KVStoreOption(t, kvStore) == [t EXCEPT !.kvStore = kvStore]

\* mpt.isEmptyRootHash
isEmptyRootHash(t, h) == h = t.emptyRootHash

\* resetRoot that installs the root and leaves the root hash as it was.
resetRoot_StaleHash(t, newRoot) == [t EXCEPT !.root = newRoot]

\* mpt.resetRoot
resetRoot(t, newRoot) == [t EXCEPT !.root = newRoot, !.rootHash = NodeHash(newRoot)]

\* setRootHash that installs whatever node the hash loads.
setRootHash_AnyNode(t, rootHash) ==
    IF Len(rootHash) = 0 \/ isEmptyRootHash(t, rootHash)
    THEN [t |-> resetRoot(t, newEmptyRootBranchNode), err |-> NoError]
    ELSE LET l == loadNode(t.kvStore, rootHash)
         IN IF l.err # NoError THEN [t |-> t, err |-> l.err]
            ELSE [t |-> resetRoot(t, l.node), err |-> NoError]

\* mpt.setRootHash
setRootHash(t, rootHash) ==
    IF Len(rootHash) = 0 \/ isEmptyRootHash(t, rootHash)
    THEN [t |-> resetRoot(t, newEmptyRootBranchNode), err |-> NoError]
    ELSE LET l == loadNode(t.kvStore, rootHash)
         IN IF l.err # NoError THEN [t |-> t, err |-> l.err]
            ELSE IF l.node.kind # "branch" THEN [t |-> t, err |-> ErrInvalidTrie]
            ELSE [t |-> resetRoot(t, [l.node EXCEPT !.isRoot = TRUE]), err |-> NoError]

\* mpt.Start
Start(t) ==
    LET emptyRootHash == NodeHash(newEmptyRootBranchNode)
        t1 == [t EXCEPT !.emptyRootHash = emptyRootHash,
                        !.rootHash = IF @ = NilBytes THEN emptyRootHash ELSE @]
    IN setRootHash(t1, t1.rootHash)

\* mpt.SetRootHash
SetRootHash(t, rootHash) == setRootHash(t, rootHash)

\* mpt.RootHash
RootHash(t) == t.rootHash

\* mpt.IsEmpty
IsEmpty(t) == isEmptyRootHash(t, t.rootHash)

\* checkKeyType that refuses only the keys that are too short and cuts a longer
\* key down to the key length.
checkKeyType_AtLeast(t, key) ==
    IF Len(key) < t.keyLength THEN [err |-> ErrInvalidKeyLength]
    ELSE [err |-> NoError, kt |-> SubSeq(key, 1, t.keyLength)]

\* mpt.checkKeyType
checkKeyType(t, key) ==
    IF Len(key) # t.keyLength THEN [err |-> ErrInvalidKeyLength]
    ELSE [err |-> NoError, kt |-> key]

\* mpt.Get
mptGet(t, key) ==
    LET k == checkKeyType(t, key)
    IN IF k.err # NoError THEN [value |-> NilBytes, err |-> k.err]
       ELSE LET r == Search(t.kvStore, t.root, k.kt, 0)
            IN IF r.err # NoError THEN [value |-> NilBytes, err |-> r.err]
               ELSE IF r.node.kind = "leaf" THEN [value |-> r.node.value, err |-> NoError]
               ELSE [value |-> NilBytes, err |-> ErrInvalidTrie]

\* Delete that returns no error when the root's Delete found nothing to delete.
mptDelete_Silent(t, key) ==
    LET k == checkKeyType(t, key)
    IN IF k.err # NoError THEN [t |-> t, err |-> k.err]
       ELSE LET r == NodeDelete(t.kvStore, t.root, k.kt, 0)
            IN IF r.err # NoError THEN [t |-> t, err |-> NoError]
               ELSE [t |-> resetRoot([t EXCEPT !.kvStore = r.kv], r.node), err |-> NoError]

\* Delete that stores the new nodes and keeps the root and root hash it had.
mptDelete_KeepRoot(t, key) ==
    LET k == checkKeyType(t, key)
    IN IF k.err # NoError THEN [t |-> t, err |-> k.err]
       ELSE LET r == NodeDelete(t.kvStore, t.root, k.kt, 0)
            IN IF r.err # NoError THEN [t |-> t, err |-> ErrNotExist]
               ELSE [t |-> [t EXCEPT !.kvStore = r.kv], err |-> NoError]

\* mpt.Delete: every error of the root's Delete is returned as ErrNotExist.
mptDelete(t, key) ==
    LET k == checkKeyType(t, key)
    IN IF k.err # NoError THEN [t |-> t, err |-> k.err]
       ELSE LET r == NodeDelete(t.kvStore, t.root, k.kt, 0)
            IN IF r.err # NoError THEN [t |-> t, err |-> ErrNotExist]
               ELSE [t |-> resetRoot([t EXCEPT !.kvStore = r.kv], r.node), err |-> NoError]

\* Upsert that inserts a key that is new and leaves one that is there alone.
mptUpsert_InsertOnly(t, key, value) ==
    LET k == checkKeyType(t, key)
    IN IF k.err # NoError THEN [t |-> t, err |-> k.err]
       ELSE IF Search(t.kvStore, t.root, k.kt, 0).err = NoError
       THEN [t |-> t, err |-> NoError]
       ELSE LET r == NodeUpsert(t.kvStore, t.root, k.kt, 0, value)
            IN IF r.err # NoError THEN [t |-> t, err |-> r.err]
               ELSE [t |-> resetRoot([t EXCEPT !.kvStore = r.kv], r.node), err |-> NoError]

\* mpt.Upsert
mptUpsert(t, key, value) ==
    LET k == checkKeyType(t, key)
    IN IF k.err # NoError THEN [t |-> t, err |-> k.err]
       ELSE LET r == NodeUpsert(t.kvStore, t.root, k.kt, 0, value)
            IN IF r.err # NoError THEN [t |-> t, err |-> r.err]
               ELSE [t |-> resetRoot([t EXCEPT !.kvStore = r.kv], r.node), err |-> NoError]

\* The goroutines that call the trie, and one that is in no call.
Goroutines == {"g1", "g2"}
Idle ==
    [pc |-> "idle", op |-> "none", key |-> NilBytes, value |-> NilBytes,
     h |-> NilBytes, ret |-> NilBytes, err |-> NoError]

\* The trie after New and Start; no call has been made.
TrieInit ==
    /\ mpt = Start(New).t
    /\ rootHashes = {}
    /\ trieOps = 0
    /\ trieResult = [op |-> "none", key |-> NilBytes, value |-> NilBytes,
                     ret |-> NilBytes, err |-> NoError]
    /\ goroutines = [g \in Goroutines |-> Idle]

\* ------------------------------------------------------------------ machine
\* protocol.ActionCtx and protocol.BlockCtx of one handler call.
Ctx(caller, gas, t) ==
    [caller |-> caller, nonce |-> gas.nonce, gasPrice |-> gas.gasPrice,
     intrinsicGas |-> gas.intrinsicGas, gasLimit |-> gas.gasLimit,
     blockTimeStamp |-> t]

Indices == 0..(MaxBuckets - 1)

\* The (name, operator) a candidate registers with: one pair per owner, so
\* that two owners share a name or an operator only after a candidateUpdate.
Identity(caller, ownerAddress) ==
    LET owner == IF ownerAddress # NilAddr THEN ownerAddress ELSE caller
    IN IF owner = "a1" THEN [name |-> "n1", operator |-> "a1"]
       ELSE [name |-> "n2", operator |-> "a2"]

\* candidateUpdate actions: nothing set, one field set, all fields set
UpdateActs ==
    {[name |-> NoName, operatorAddress |-> NilAddr, rewardAddress |-> NilAddr],
     [name |-> "n1", operatorAddress |-> NilAddr, rewardAddress |-> NilAddr],
     [name |-> "n2", operatorAddress |-> NilAddr, rewardAddress |-> NilAddr],
     [name |-> NoName, operatorAddress |-> "a2", rewardAddress |-> NilAddr],
     [name |-> NoName, operatorAddress |-> NilAddr, rewardAddress |-> "a1"],
     [name |-> "n2", operatorAddress |-> "a1", rewardAddress |-> "a2"]}

\* The state after a handler call that returned `out`, the n-th call at most.
ApplyWithin(n, name, ctx, amount, out) ==
    /\ result.err = NoError
    /\ steps < n
    /\ steps' = steps + 1
    /\ accounts' = out.s.accounts
    /\ rewardPool' = out.s.rewardPool
    /\ buckets' = out.s.buckets
    /\ bucketCount' = out.s.bucketCount
    /\ voterBuckets' = out.s.voterBuckets
    /\ candBuckets' = out.s.candBuckets
    /\ candidates' = out.s.candidates
    /\ inMemCandidates' = out.s.inMemCandidates
    /\ config' = config
    /\ UNCHANGED trieVars
    /\ result' = [handler |-> name, caller |-> ctx.caller, nonce |-> ctx.nonce,
                  gasPrice |-> ctx.gasPrice, intrinsicGas |-> ctx.intrinsicGas,
                  gasLimit |-> ctx.gasLimit, amount |-> amount, status |-> out.status,
                  gasConsumed |-> out.gasConsumed, logs |-> out.logs, err |-> out.err]

Apply(name, ctx, amount, out) == ApplyWithin(MaxSteps, name, ctx, amount, out)

Init ==
    /\ accounts = [a \in Addr |-> [balance |-> InitBalance, nonce |-> 0]]
    /\ rewardPool = 0
    /\ buckets = <<>>
    /\ bucketCount = 0
    /\ voterBuckets = [a \in Addr |-> {}]
    /\ candBuckets = [a \in Addr |-> {}]
    /\ candidates = <<>>
    /\ inMemCandidates = <<>>
    /\ config = [registrationFee |-> 1, withdrawWaitingPeriod |-> 1]
    /\ steps = 0
    /\ result = [handler |-> "none", caller |-> NilAddr, nonce |-> 0,
                 gasPrice |-> 0, intrinsicGas |-> 0, gasLimit |-> 0, amount |-> 0,
                 status |-> NoReceipt, gasConsumed |-> 0, logs |-> <<>>, err |-> NoError]
    /\ TrieInit

CreateStake ==
    \E caller \in Addr, gas \in GasCtxs, cand \in Names, amount \in Amounts,
       opt \in StakeOpts :
        /\ bucketCount < MaxBuckets
        /\ Apply("createStake", Ctx(caller, gas, 0), amount,
                 handleCreateStake(State, Ctx(caller, gas, 0),
                     [candidate |-> cand, amount |-> amount,
                      duration |-> opt.duration, autoStake |-> opt.autoStake]))

Unstake ==
    \E caller \in Addr, gas \in GasCtxs, t \in Times, i \in Indices :
        Apply("unstake", Ctx(caller, gas, t), 0,
              handleUnstake(State, Ctx(caller, gas, t), [bucketIndex |-> i]))

WithdrawStake ==
    \E caller \in Addr, gas \in GasCtxs, t \in Times, i \in Indices :
        Apply("withdrawStake", Ctx(caller, gas, t), 0,
              handleWithdrawStake(State, Ctx(caller, gas, t), [bucketIndex |-> i]))

ChangeCandidate ==
    \E caller \in Addr, gas \in GasCtxs, cand \in Names, i \in Indices :
        Apply("changeCandidate", Ctx(caller, gas, 0), 0,
              handleChangeCandidate(State, Ctx(caller, gas, 0),
                  [candidate |-> cand, bucketIndex |-> i]))

TransferStake ==
    \E caller \in Addr, gas \in GasCtxs, voter \in Addr, i \in Indices :
        Apply("transferStake", Ctx(caller, gas, 0), 0,
              handleTransferStake(State, Ctx(caller, gas, 0),
                  [voterAddress |-> voter, bucketIndex |-> i]))

DepositToStake ==
    \E caller \in Addr, gas \in GasCtxs, amount \in Amounts, i \in Indices :
        Apply("depositToStake", Ctx(caller, gas, 0), amount,
              handleDepositToStake(State, Ctx(caller, gas, 0),
                  [bucketIndex |-> i, amount |-> amount]))

Restake ==
    \E caller \in Addr, gas \in GasCtxs, opt \in StakeOpts, i \in Indices :
        Apply("restake", Ctx(caller, gas, 0), 0,
              handleRestake(State, Ctx(caller, gas, 0),
                  [bucketIndex |-> i, duration |-> opt.duration,
                   autoStake |-> opt.autoStake]))

CandidateRegister ==
    \E caller \in Addr, gas \in GasCtxs, amount \in Amounts, opt \in StakeOpts :
      \E owner \in (Addr \ {caller}) \cup {NilAddr} :
        /\ bucketCount < MaxBuckets
        /\ Apply("candidateRegister", Ctx(caller, gas, 0), amount,
                 handleCandidateRegister(State, Ctx(caller, gas, 0),
                     [name |-> Identity(caller, owner).name,
                      operatorAddress |-> Identity(caller, owner).operator,
                      rewardAddress |-> Identity(caller, owner).operator,
                      ownerAddress |-> owner, amount |-> amount,
                      duration |-> opt.duration, autoStake |-> opt.autoStake]))

CandidateUpdate ==
    \E caller \in Addr, gas \in GasCtxs, act \in UpdateActs :
        Apply("candidateUpdate", Ctx(caller, gas, 0), 0, handleCandidateUpdate(State, Ctx(caller, gas, 0), act))

Next ==
    \/ CreateStake
    \/ Unstake
    \/ WithdrawStake
    \/ ChangeCandidate
    \/ TransferStake
    \/ DepositToStake
    \/ Restake
    \/ CandidateRegister
    \/ CandidateUpdate

Spec == Init /\ [][Next]_vars

\* ------------------------------------------------------------------ scenario
\* Register -> unstake -> withdraw with the amounts of the walk-through:
\* balance 1000, registration fee 10, intrinsic gas 1, amount 100, duration 7
\* days, no auto-stake; callers, block times and gas prices vary around it.
ScenarioTimes == 1..6
ScenarioGas(price) ==
    [nonce |-> steps + 1, gasPrice |-> price, intrinsicGas |-> 1, gasLimit |-> 1]
ScenarioPrices == {1, 2}

ScenarioInit ==
    /\ accounts = [a \in Addr |-> [balance |-> 1000, nonce |-> 0]]
    /\ rewardPool = 0
    /\ buckets = <<>>
    /\ bucketCount = 0
    /\ voterBuckets = [a \in Addr |-> {}]
    /\ candBuckets = [a \in Addr |-> {}]
    /\ candidates = <<>>
    /\ inMemCandidates = <<>>
    /\ config = [registrationFee |-> 10, withdrawWaitingPeriod |-> 2]
    /\ steps = 0
    /\ result = [handler |-> "none", caller |-> NilAddr, nonce |-> 0,
                 gasPrice |-> 0, intrinsicGas |-> 0, gasLimit |-> 0, amount |-> 0,
                 status |-> NoReceipt, gasConsumed |-> 0, logs |-> <<>>, err |-> NoError]
    /\ TrieInit

ScenarioRegister ==
    \E price \in ScenarioPrices :
        /\ bucketCount < MaxBuckets
        /\ Apply("candidateRegister", Ctx("a1", ScenarioGas(price), 0), 100,
                 handleCandidateRegister(State, Ctx("a1", ScenarioGas(price), 0),
                     [name |-> "n1", operatorAddress |-> "a1", rewardAddress |-> "a1",
                      ownerAddress |-> NilAddr, amount |-> 100,
                      duration |-> 7, autoStake |-> FALSE]))

ScenarioUnstake ==
    \E caller \in Addr, price \in ScenarioPrices, t \in ScenarioTimes :
        Apply("unstake", Ctx(caller, ScenarioGas(price), t), 0,
              handleUnstake(State, Ctx(caller, ScenarioGas(price), t),
                            [bucketIndex |-> 0]))

ScenarioWithdraw ==
    \E caller \in Addr, price \in ScenarioPrices, t \in ScenarioTimes :
        Apply("withdrawStake", Ctx(caller, ScenarioGas(price), t), 0,
              handleWithdrawStake(State, Ctx(caller, ScenarioGas(price), t),
                                  [bucketIndex |-> 0]))

ScenarioNext ==
    \/ ScenarioRegister
    \/ ScenarioUnstake
    \/ ScenarioWithdraw

SpecScenario == ScenarioInit /\ [][ScenarioNext]_vars

\* The walk-through has run: three calls, all by a1 at gas price 1, the last a
\* successful withdraw (the pool holds the registration fee and three gas fees).
ScenarioDone ==
    /\ steps = 3
    /\ result.handler = "withdrawStake"
    /\ result.status = Success
    /\ result.caller = "a1"
    /\ rewardPool = 13

\* ------------------------------------------------------------------ re-voting
\* Registrations, stakes and changes of candidate: long enough for two
\* candidates, a bucket that votes for one of them and its move to the other.
ChangeGas(price) ==
    [nonce |-> steps + 1, gasPrice |-> price, intrinsicGas |-> 1, gasLimit |-> 1]
ChangePrices == {0, 1}

ChangeRegister ==
    \E caller \in Addr, price \in ChangePrices :
        /\ bucketCount < MaxBuckets
        /\ ApplyWithin(MaxChangeSteps, "candidateRegister",
                       Ctx(caller, ChangeGas(price), 0), 1,
                       handleCandidateRegister(State, Ctx(caller, ChangeGas(price), 0),
                           [name |-> Identity(caller, NilAddr).name,
                            operatorAddress |-> Identity(caller, NilAddr).operator,
                            rewardAddress |-> Identity(caller, NilAddr).operator,
                            ownerAddress |-> NilAddr, amount |-> 1,
                            duration |-> 0, autoStake |-> FALSE]))

ChangeCreateStake ==
    \E caller \in Addr, price \in ChangePrices, cand \in Names, opt \in StakeOpts :
        /\ bucketCount < MaxBuckets
        /\ ApplyWithin(MaxChangeSteps, "createStake",
                       Ctx(caller, ChangeGas(price), 0), 1,
                       handleCreateStake(State, Ctx(caller, ChangeGas(price), 0),
                           [candidate |-> cand, amount |-> 1,
                            duration |-> opt.duration, autoStake |-> opt.autoStake]))

ChangeUnstake ==
    \E caller \in Addr, price \in ChangePrices, i \in Indices :
        ApplyWithin(MaxChangeSteps, "unstake", Ctx(caller, ChangeGas(price), 1), 0,
                    handleUnstake(State, Ctx(caller, ChangeGas(price), 1),
                                  [bucketIndex |-> i]))

ChangeCandidateTo ==
    \E caller \in Addr, price \in ChangePrices, cand \in Names, i \in Indices :
        ApplyWithin(MaxChangeSteps, "changeCandidate",
                    Ctx(caller, ChangeGas(price), 0), 0,
                    handleChangeCandidate(State, Ctx(caller, ChangeGas(price), 0),
                        [candidate |-> cand, bucketIndex |-> i]))

ChangeNext ==
    \/ ChangeRegister
    \/ ChangeCreateStake
    \/ ChangeUnstake
    \/ ChangeCandidateTo

SpecChange == Init /\ [][ChangeNext]_vars

\* ------------------------------------------------------------------ properties
\* The last call returned a receipt.
Receipted == result.handler # "none" /\ result.err = NoError
ReceiptedNext == result'.handler # "none" /\ result'.err = NoError

\* The gas fee of the call that produced result.
FeeOf(r) == r.gasPrice * r.intrinsicGas
\* The amount the call that produced r needs besides the gas fee.
RequiredOf(r) ==
    r.amount + (IF r.handler = "candidateRegister" THEN config.registrationFee ELSE 0)

\* Buckets that vote for the candidate of owner o.
LiveBucketsFor(o) ==
    {i \in DOMAIN buckets : buckets[i].candidate = o /\ buckets[i].unstakeStartTime = 0}
\* The weight of bucket i for candidate c (self-stake weight for c's own bucket).
WeightFor(c) ==
    [i \in DOMAIN buckets |-> calculateVoteWeight(buckets[i], i = c.selfStakeBucketIdx)]

\* C1: every persisted candidate's votes equal the sum of the weights of the
\* existing buckets that name it as candidate and are not unstaked.
C1_VotesEqualLiveWeights ==
    result.err = NoError =>
        \A o \in DOMAIN candidates :
            candidates[o].votes = SumOver(LiveBucketsFor(o), WeightFor(candidates[o]))

\* C2: a call that returns a receipt with a status other than Success leaves
\* buckets, bucket count, both indices and the candidates as they were; only
\* the caller's account changes, by the gas fee charged and the nonce.
C2_FailureChangesOnlyFeeAndNonce ==
    [][(ReceiptedNext /\ result'.status # Success) =>
        /\ buckets' = buckets
        /\ bucketCount' = bucketCount
        /\ voterBuckets' = voterBuckets
        /\ candBuckets' = candBuckets
        /\ candidates' = candidates
        /\ \A a \in Addr \ {result'.caller} : accounts'[a] = accounts[a]
        /\ rewardPool' - rewardPool = Min(FeeOf(result'), accounts[result'.caller].balance)
        /\ accounts'[result'.caller].balance
               = accounts[result'.caller].balance - (rewardPool' - rewardPool)
        /\ accounts'[result'.caller].nonce
               = Max(accounts[result'.caller].nonce, result'.nonce)]_vars

\* A withdraw was refused for an existing bucket that is not mature.
C2_Witness ==
    /\ result.handler = "withdrawStake"
    /\ result.status = ErrWithdrawBeforeMaturity
    /\ buckets # <<>>
    /\ rewardPool > 0

\* C3: the voter index of o holds i exactly when bucket i exists with owner o,
\* and the candidate index of c holds i exactly when bucket i exists with
\* candidate c.
C3_IndicesMatchBuckets ==
    \A a \in Addr, i \in 0..(bucketCount + 1) :
        /\ i \in voterBuckets[a] <=> (i \in DOMAIN buckets /\ buckets[i].owner = a)
        /\ i \in candBuckets[a] <=> (i \in DOMAIN buckets /\ buckets[i].candidate = a)

\* A bucket was transferred to another voter.
C3_Witness ==
    /\ result.handler = "transferStake"
    /\ result.status = Success
    /\ \E i \in DOMAIN buckets :
           /\ buckets[i].owner # result.caller
           /\ i \in voterBuckets[buckets[i].owner]
           /\ i \notin voterBuckets[result.caller]

\* C4: after a call that returns Success, the candidate center and the
\* persisted candidates hold the same owners with the same fields.
C4_CenterAgreesWithStore ==
    result.status = Success =>
        /\ DOMAIN inMemCandidates = DOMAIN candidates
        /\ \A o \in DOMAIN candidates : GetByOwner(inMemCandidates, o) = candidates[o]

\* A candidateUpdate renamed a registered candidate.
C4_Witness ==
    /\ result.handler = "candidateUpdate"
    /\ result.status = Success
    /\ "a1" \in DOMAIN candidates
    /\ candidates["a1"].name = "n2"

\* C5: no balance is ever negative: what a call debits from its caller (amount,
\* registration fee and gas fee together) never exceeds the caller's balance.
C5_BalancesNonNegative ==
    /\ rewardPool >= 0
    /\ \A a \in Addr : accounts[a].balance >= 0

\* A successful call with an amount took the caller's whole balance.
C5_Witness ==
    /\ result.status = Success
    /\ result.amount > 0
    /\ accounts[result.caller].balance = 0

\* C6: a call that returns a receipt leaves the caller's nonce at the larger
\* of its previous value and the action's nonce; no nonce ever decreases.
C6_NonceIsMax ==
    [][/\ \A a \in Addr : accounts'[a].nonce >= accounts[a].nonce
       /\ ReceiptedNext =>
            /\ accounts'[result'.caller].nonce
                   = Max(accounts[result'.caller].nonce, result'.nonce)
            /\ \A a \in Addr \ {result'.caller} : accounts'[a].nonce = accounts[a].nonce]_vars

\* A receipted call carried a nonce below the one the caller already had.
C6_Witness ==
    /\ Receipted
    /\ result.nonce < accounts[result.caller].nonce

\* C7: when the amount required plus the gas fee exceeds the caller's balance
\* (and settlement emits a receipt), the status is ErrNotEnoughBalance and the
\* fee charged is min(fee, balance); when the balance is below the fee the
\* whole balance is deposited, the balance is 0, the nonce advances and no
\* bucket is created.
C7_InsufficientBalance ==
    [][(/\ result'.handler # "none"
        /\ result'.gasLimit >= result'.intrinsicGas
        /\ RequiredOf(result') + FeeOf(result') > accounts[result'.caller].balance) =>
        /\ result'.err = NoError
        /\ result'.status = ErrNotEnoughBalance
        /\ rewardPool' - rewardPool = Min(FeeOf(result'), accounts[result'.caller].balance)
        /\ accounts'[result'.caller].balance
               = accounts[result'.caller].balance
                 - Min(FeeOf(result'), accounts[result'.caller].balance)
        /\ accounts[result'.caller].balance < FeeOf(result') =>
            /\ rewardPool' - rewardPool = accounts[result'.caller].balance
            /\ accounts'[result'.caller].balance = 0
            /\ accounts'[result'.caller].nonce
                   = Max(accounts[result'.caller].nonce, result'.nonce)
            /\ buckets' = buckets
            /\ bucketCount' = bucketCount]_vars

\* A call without an amount found less than its gas fee and took all of it.
C7_Witness ==
    /\ result.status = ErrNotEnoughBalance
    /\ result.amount = 0
    /\ result.handler # "candidateRegister"
    /\ accounts[result.caller].balance = 0
    /\ result.nonce = accounts[result.caller].nonce

\* C8: when the gas limit of the block context is below the intrinsic gas,
\* the call returns an error and no receipt, no gas fee is deposited (the pool
\* grows by nothing but a registration fee deposited before settlement) and
\* no nonce advances.
C8_GasLimitIsFatal ==
    [][(result'.handler # "none" /\ result'.gasLimit < result'.intrinsicGas) =>
        /\ result'.err # NoError
        /\ result'.status = NoReceipt
        /\ \A a \in Addr : accounts'[a].nonce = accounts[a].nonce
        /\ rewardPool' - rewardPool
               = (IF result'.handler = "candidateRegister" /\ bucketCount' # bucketCount
                  THEN config.registrationFee ELSE 0)]_vars

\* Settlement refused a call whose intrinsic gas is above the gas limit.
C8_Witness ==
    /\ result.err = "ErrHitGasLimit"
    /\ result.gasLimit < result.intrinsicGas
    /\ rewardPool > 0

\* Block times at which a withdraw is tried: up to past the latest maturity.
MaturityTimes == 0..4

\* C9: a withdraw by the owner of an unstaked bucket succeeds exactly when the
\* block time is at or after unstake start + WithdrawWaitingPeriod; before it
\* the status is ErrWithdrawBeforeMaturity, and a bucket whose unstake start is
\* the zero sentinel gets ErrWithdrawBeforeUnstake (the owner can pay the gas
\* fee and settlement emits a receipt).
C9_WithdrawAtMaturity ==
    \A i \in DOMAIN buckets, gas \in GasCtxs, t \in MaturityTimes :
        LET bucket == buckets[i]
            ctx == Ctx(bucket.owner, gas, t)
            out == handleWithdrawStake(State, ctx, [bucketIndex |-> i])
            mature == bucket.unstakeStartTime + config.withdrawWaitingPeriod
        IN (/\ result.err = NoError
            /\ gas.gasLimit >= gas.intrinsicGas
            /\ gas.gasPrice * gas.intrinsicGas <= accounts[bucket.owner].balance) =>
            /\ out.err = NoError
            /\ bucket.unstakeStartTime = 0 => out.status = ErrWithdrawBeforeUnstake
            /\ bucket.unstakeStartTime # 0 =>
                /\ out.status = Success <=> t >= mature
                /\ t < mature => out.status = ErrWithdrawBeforeMaturity

\* A withdraw succeeded: with the times of the model, at the maturity instant.
C9_Witness ==
    /\ result.handler = "withdrawStake"
    /\ result.status = Success
    /\ bucketCount > Cardinality(DOMAIN buckets)

\* What a successful withdraw does: the bucket is deleted, its index leaves
\* both index sets, and the caller's balance grows by the staked amount less
\* the gas fee.
WithdrawEffect ==
    \E i \in DOMAIN buckets :
        /\ buckets' = Del(buckets, i)
        /\ voterBuckets' = [voterBuckets EXCEPT ![buckets[i].owner] = @ \ {i}]
        /\ candBuckets' = [candBuckets EXCEPT ![buckets[i].candidate] = @ \ {i}]
        /\ \A a \in Addr : i \notin voterBuckets'[a] /\ i \notin candBuckets'[a]
        /\ accounts'[result'.caller].balance
               = accounts[result'.caller].balance + buckets[i].stakedAmount
                 - FeeOf(result')

\* C10: a successful withdraw deletes the bucket, removes its index from both
\* index sets and leaves the caller with the previous balance plus the staked
\* amount less the gas fee; in the walk-through that is 987 (1000 less the
\* registration fee and three gas fees).
C10_WithdrawEffect ==
    [][(result'.handler = "withdrawStake" /\ result'.status = Success) =>
        /\ WithdrawEffect
        /\ ScenarioDone' => accounts'["a1"].balance = 987]_vars

\* C10 as stated: the same, with 989 as the balance after the walk-through.
C10_AsStated ==
    [][(result'.handler = "withdrawStake" /\ result'.status = Success) =>
        /\ WithdrawEffect
        /\ ScenarioDone' => accounts'["a1"].balance = 989]_vars

\* The walk-through has run and the bucket and its index entries are gone.
C10_Witness ==
    /\ ScenarioDone
    /\ buckets = <<>>
    /\ voterBuckets["a1"] = {}
    /\ candBuckets["a1"] = {}
    /\ accounts["a1"].balance = 987

\* C11 as stated: every persisted candidate has self_stake > 0 exactly when
\* the bucket at its self_stake_bucket_idx exists with the candidate's owner
\* as owner.
C11_AsStated ==
    \A o \in DOMAIN candidates :
        candidates[o].selfStake > 0
            <=> /\ candidates[o].selfStakeBucketIdx \in DOMAIN buckets
                /\ buckets[candidates[o].selfStakeBucketIdx].owner = candidates[o].owner

\* C11: for every persisted candidate, the bucket at its self_stake_bucket_idx,
\* while it exists, has the candidate's owner as owner and as candidate, and
\* the index is one that was allocated; self_stake itself is 0 after an
\* unstake although the bucket stays until it is withdrawn.
C11_SelfStakeBucketBelongsToOwner ==
    \A o \in DOMAIN candidates :
        LET c == candidates[o]
        IN /\ c.owner = o
           /\ c.selfStakeBucketIdx < bucketCount
           /\ c.selfStakeBucketIdx \in DOMAIN buckets =>
                /\ buckets[c.selfStakeBucketIdx].owner = c.owner
                /\ buckets[c.selfStakeBucketIdx].candidate = c.owner

\* A self-staking bucket was unstaked: it exists, owned by the candidate's
\* owner, and the candidate's self_stake is 0.
C11_Witness ==
    /\ result.handler = "unstake"
    /\ result.status = Success
    /\ \E o \in DOMAIN candidates :
           /\ candidates[o].selfStake = 0
           /\ candidates[o].selfStakeBucketIdx \in DOMAIN buckets
           /\ buckets[candidates[o].selfStakeBucketIdx].owner = o
           /\ buckets[candidates[o].selfStakeBucketIdx].unstakeStartTime > 0

\* What getBucket can return for index i: what is stored, or a load error
\* other than ErrStateNotExist.
BucketLoads(i) == {getBucket(State, i), [err |-> "ErrLoad"]}

\* C12: fetchBucket yields ErrInvalidBucketIndex when no bucket is stored at
\* the index, Failure (no receipt, the error is returned) on another load
\* error, then ErrUnauthorizedOperator when the owner is checked and is not the
\* caller, then ErrInvalidBucketType when self-staking is not allowed and the
\* index is a candidate's self-staking bucket, and the bucket otherwise.
C12_FetchBucketPrecedence ==
    \A i \in Indices, caller \in Addr, checkOwner \in BOOLEAN,
       allowSelfStaking \in BOOLEAN :
      \A load \in BucketLoads(i) :
        LET ctx == Ctx(caller, CHOOSE g \in GasCtxs : g.gasLimit >= g.intrinsicGas, 0)
            out == fetchBucketOf(load, State, ctx, i, checkOwner, allowSelfStaking)
            settled == settleFetchError(State, ctx, out, 0)
        IN /\ load.err = "ErrLoad" =>
                /\ out.status = Failure
                /\ settled.status = NoReceipt
                /\ settled.err # NoError
                /\ settled.s = State
           /\ (load.err # "ErrLoad" /\ i \notin DOMAIN buckets) =>
                /\ out.status = ErrInvalidBucketIndex
                /\ settled.status = ErrInvalidBucketIndex
           /\ (load.err # "ErrLoad" /\ i \in DOMAIN buckets) =>
                out = IF checkOwner /\ buckets[i].owner # caller
                      THEN [status |-> ErrUnauthorizedOperator, err |-> out.err]
                      ELSE IF ~allowSelfStaking
                              /\ ContainsSelfStakingBucket(inMemCandidates, i)
                      THEN [status |-> ErrInvalidBucketType, err |-> out.err]
                      ELSE [status |-> OK, bucket |-> buckets[i], err |-> NoError]

\* A call by someone who is not the owner was refused for a self-staking
\* bucket as unauthorized, not as a bucket of the wrong type.
C12_Witness ==
    /\ result.handler = "transferStake"
    /\ result.status = ErrUnauthorizedOperator
    /\ \E i \in DOMAIN buckets :
           /\ ContainsSelfStakingBucket(inMemCandidates, i)
           /\ buckets[i].owner # result.caller
    /\ \A i \in DOMAIN buckets : ContainsSelfStakingBucket(inMemCandidates, i)

\* Gas contexts whose settlement emits a receipt.
ReceiptGas == {g \in GasCtxs : g.gasLimit >= g.intrinsicGas}

\* The state after a call that settled `fee` and nonce for the caller of ctx
\* and wrote nothing else.
OnlySettled(ctx, fee) ==
    [State EXCEPT !.accounts[ctx.caller] =
                      [balance |-> @.balance - fee, nonce |-> Max(@.nonce, ctx.nonce)],
                  !.rewardPool = @ + fee]

\* C13: depositToStake on an existing bucket without auto-stake (by a caller
\* who can pay amount and gas fee) returns a receipt with status
\* ErrInvalidBucketType, settles gas fee and nonce, and leaves the bucket, the
\* candidates and the depositor's balance apart from the gas fee unchanged.
C13_DepositNeedsAutoStake ==
    result.err = NoError =>
        \A i \in DOMAIN buckets, caller \in Addr, gas \in ReceiptGas, amount \in Amounts :
            LET ctx == Ctx(caller, gas, 0)
                fee == gas.gasPrice * gas.intrinsicGas
                out == handleDepositToStake(State, ctx, [bucketIndex |-> i, amount |-> amount])
            IN (~buckets[i].autoStake /\ amount + fee <= accounts[caller].balance) =>
                /\ out.err = NoError
                /\ out.status = ErrInvalidBucketType
                /\ out.gasConsumed = gas.intrinsicGas
                /\ out.logs = <<>>
                /\ out.s = OnlySettled(ctx, fee)

\* A deposit was refused while a bucket without auto-stake exists.
C13_Witness ==
    /\ result.handler = "depositToStake"
    /\ result.status = ErrInvalidBucketType
    /\ \A i \in DOMAIN buckets : ~buckets[i].autoStake
    /\ accounts[result.caller].nonce = result.nonce

\* C14: a successful transferStake(Y, idx) by the owner X takes idx out of
\* voter_buckets[X], puts it into voter_buckets[Y], sets bucket.owner to Y and
\* leaves the candidates, cand_buckets, the other fields of the bucket, the
\* other buckets and the candidate center unchanged.
C14_TransferMovesOwnerOnly ==
    result.err = NoError =>
        \A i \in DOMAIN buckets, Y \in Addr, gas \in ReceiptGas :
            LET X == buckets[i].owner
                ctx == Ctx(X, gas, 0)
                fee == gas.gasPrice * gas.intrinsicGas
                out == handleTransferStake(State, ctx, [voterAddress |-> Y, bucketIndex |-> i])
            IN /\ out.status = Success <=>
                    /\ fee <= accounts[X].balance
                    /\ ~ContainsSelfStakingBucket(inMemCandidates, i)
               /\ out.status = Success =>
                    /\ out.err = NoError
                    /\ i \in out.s.voterBuckets[Y]
                    /\ X # Y => i \notin out.s.voterBuckets[X]
                    /\ out.s.buckets[i].owner = Y
                    /\ out.s = [OnlySettled(ctx, fee) EXCEPT
                                   !.buckets[i].owner = Y,
                                   !.voterBuckets =
                                       [a \in Addr |->
                                           IF a = Y THEN voterBuckets[a] \cup {i}
                                           ELSE voterBuckets[a] \ {i}]]

\* A bucket was transferred: it is in the new owner's index only.
C14_Witness ==
    /\ result.handler = "transferStake"
    /\ result.status = Success
    /\ \E i \in DOMAIN buckets :
           /\ buckets[i].owner # result.caller
           /\ buckets[i].candidate = result.caller
           /\ voterBuckets[result.caller] = {0}
           /\ voterBuckets[buckets[i].owner] = {i}

\* The votes of all persisted candidates of state s together.
TotalVotes(s) == SumOver(DOMAIN s.candidates, [o \in DOMAIN s.candidates |-> s.candidates[o].votes])

\* C15: a successful changeCandidate(B, idx) by the owner of a live bucket
\* that votes for A, A # B, moves idx from cand_buckets[A] to cand_buckets[B],
\* sets bucket.candidate to B's owner, takes the bucket's weight from A's votes
\* and adds it to B's, so that the votes of all candidates together stay the
\* same.
C15_ChangeCandidateMovesWeight ==
    result.err = NoError =>
        \A i \in DOMAIN buckets, name \in Names, price \in ChangePrices :
            LET bucket == buckets[i]
                A == bucket.candidate
                ctx == Ctx(bucket.owner, ChangeGas(price), 0)
                out == handleChangeCandidate(State, ctx,
                                             [candidate |-> name, bucketIndex |-> i])
                w == calculateVoteWeight(bucket, FALSE)
            IN (/\ bucket.unstakeStartTime = 0
                /\ CenterHasName(inMemCandidates, name)
                /\ GetByName(inMemCandidates, name).owner # A
                /\ out.status = Success) =>
                LET B == GetByName(inMemCandidates, name).owner
                IN /\ out.err = NoError
                   /\ i \in candBuckets[A]
                   /\ out.s.candBuckets = [candBuckets EXCEPT ![A] = @ \ {i},
                                                              ![B] = @ \cup {i}]
                   /\ out.s.buckets = [buckets EXCEPT ![i].candidate = B]
                   /\ out.s.candidates = [candidates EXCEPT ![A].votes = @ - w,
                                                            ![B].votes = @ + w]
                   /\ out.s.inMemCandidates = out.s.candidates
                   /\ out.s.voterBuckets = voterBuckets
                   /\ TotalVotes(out.s) = TotalVotes(State)

\* A bucket was moved to another candidate than the one it voted for before:
\* it is the only vote of the new candidate besides the self-stake.
C15_Witness ==
    /\ result.handler = "changeCandidate"
    /\ result.status = Success
    /\ steps = 4
    /\ DOMAIN candidates = Addr
    /\ \E i \in DOMAIN buckets :
           /\ buckets[i].owner = result.caller
           /\ ~ContainsSelfStakingBucket(inMemCandidates, i)
           /\ i \in candBuckets[buckets[i].candidate]
           /\ candidates[buckets[i].candidate].votes
                  = 2 + calculateVoteWeight(buckets[i], FALSE)
           /\ \A o \in Addr \ {buckets[i].candidate} :
                  /\ candidates[o].votes = 2
                  /\ candBuckets[o] = {candidates[o].selfStakeBucketIdx}

\* Registrations tried in a state of the walk-through.
RegisterActs ==
    {[name |-> Identity(caller, owner).name,
      operatorAddress |-> Identity(caller, owner).operator,
      rewardAddress |-> Identity(caller, owner).operator,
      ownerAddress |-> owner, amount |-> 100,
      duration |-> opt.duration, autoStake |-> opt.autoStake, caller |-> caller] :
        caller \in Addr, owner \in Addr \cup {NilAddr},
        opt \in StakeOpts \cup {[duration |-> 7, autoStake |-> FALSE]}}

\* C16: a successful candidateRegister by a caller with balance B, amount a,
\* registration fee f and gas fee g creates one bucket whose candidate and
\* owner are the effective owner (the owner field when set, else the caller),
\* persists a candidate with self_stake = a, self_stake_bucket_idx = the new
\* index and votes = weight(bucket, self), leaves the caller with B - a - f - g
\* (889 for 1000/100/10/1) and credits f + g to the reward pool.
C16_RegisterEffect ==
    /\ (steps = 1 /\ result.handler = "candidateRegister" /\ result.status = Success
            /\ result.gasPrice = 1) =>
        /\ accounts["a1"].balance = 889
        /\ rewardPool = 11
        /\ DOMAIN buckets = {0}
        /\ candidates["a1"].selfStake = 100
    /\ result.err = NoError =>
        \A act \in RegisterActs, price \in ScenarioPrices :
            LET ctx == Ctx(act.caller, ScenarioGas(price), 0)
                out == handleCandidateRegister(State, ctx, act)
                owner == IF act.ownerAddress # NilAddr THEN act.ownerAddress ELSE act.caller
                B == accounts[act.caller].balance
                f == config.registrationFee
                g == price
                bucket == [candidate |-> owner, owner |-> owner,
                           stakedAmount |-> act.amount,
                           stakedDuration |-> Hours(act.duration * 24),
                           unstakeStartTime |-> 0, autoStake |-> act.autoStake]
                c == [owner |-> owner, operator |-> act.operatorAddress,
                      reward |-> act.rewardAddress, name |-> act.name,
                      votes |-> calculateVoteWeight(bucket, TRUE),
                      selfStakeBucketIdx |-> bucketCount, selfStake |-> act.amount]
            IN /\ (act.amount + f + g <= B /\ ~UpsertCollision(inMemCandidates, c))
                      => out.status = Success
               /\ out.status = Success =>
                    /\ out.s.bucketCount = bucketCount + 1
                    /\ out.s.buckets = Put(buckets, bucketCount, bucket)
                    /\ out.s.voterBuckets = [voterBuckets EXCEPT ![owner] = @ \cup {bucketCount}]
                    /\ out.s.candBuckets = [candBuckets EXCEPT ![owner] = @ \cup {bucketCount}]
                    /\ out.s.candidates = Put(candidates, owner, c)
                    /\ out.s.inMemCandidates = Put(inMemCandidates, owner, c)
                    /\ out.s.accounts =
                           [accounts EXCEPT ![act.caller] =
                               [balance |-> B - act.amount - f - g,
                                nonce |-> Max(@.nonce, ctx.nonce)]]
                    /\ out.s.rewardPool = rewardPool + f + g

\* The registration of the walk-through: 889 left, bucket 0, self-stake 100.
C16_Witness ==
    /\ steps = 1
    /\ result.handler = "candidateRegister"
    /\ result.status = Success
    /\ accounts["a1"].balance = 889
    /\ rewardPool = 11
    /\ buckets[0].owner = "a1"
    /\ candidates["a1"].selfStake = 100
    /\ candidates["a1"].selfStakeBucketIdx = 0

\* C17: a successful unstake(idx) by the owner of the bucket sets the bucket's
\* unstake_start_time to the block timestamp, takes the bucket's weight from
\* its candidate's votes, sets that candidate's self_stake to 0 when idx is
\* its self-staking bucket and leaves it alone otherwise, and leaves the
\* bucket's amount, owner and candidate and both index sets unchanged.
C17_UnstakeEffect ==
    result.err = NoError =>
        \A i \in DOMAIN buckets, gas \in ReceiptGas, t \in Times :
            LET bucket == buckets[i]
                A == bucket.candidate
                ctx == Ctx(bucket.owner, gas, t)
                fee == gas.gasPrice * gas.intrinsicGas
                out == handleUnstake(State, ctx, [bucketIndex |-> i])
            IN out.status = Success =>
                LET isSelf == candidates[A].selfStakeBucketIdx = i
                    w == calculateVoteWeight(bucket, isSelf)
                IN /\ out.err = NoError
                   /\ out.s.buckets = [buckets EXCEPT ![i].unstakeStartTime = t]
                   /\ out.s.candidates =
                          [candidates EXCEPT ![A].votes = @ - w,
                                             ![A].selfStake = IF isSelf THEN 0 ELSE @]
                   /\ out.s.inMemCandidates = out.s.candidates
                   /\ out.s.voterBuckets = voterBuckets
                   /\ out.s.candBuckets = candBuckets
                   /\ out.s.bucketCount = bucketCount
                   /\ out.s.accounts = OnlySettled(ctx, fee).accounts
                   /\ out.s.rewardPool = rewardPool + fee

\* A self-staking bucket was unstaked at a time after the epoch: its candidate
\* has no votes and no self-stake left, and the bucket is still indexed.
C17_Witness ==
    /\ result.handler = "unstake"
    /\ result.status = Success
    /\ \E i \in DOMAIN buckets :
           /\ buckets[i].unstakeStartTime > 0
           /\ buckets[i].owner = result.caller
           /\ i \in voterBuckets[result.caller]
           /\ i \in candBuckets[buckets[i].candidate]
           /\ candidates[buckets[i].candidate].selfStakeBucketIdx = i
           /\ candidates[buckets[i].candidate].votes = 0
           /\ candidates[buckets[i].candidate].selfStake = 0

\* C18: candidateUpdate returns ErrCandidateNotExist when the caller owns no
\* candidate; otherwise a successful one overwrites exactly those of name,
\* operator and reward that the action sets and leaves the candidate's owner,
\* votes, self_stake and self_stake_bucket_idx, every other candidate and
\* every bucket unchanged.
C18_UpdateOverwritesSetFields ==
    result.err = NoError =>
        \A caller \in Addr, gas \in ReceiptGas, act \in UpdateActs :
            LET ctx == Ctx(caller, gas, 0)
                fee == gas.gasPrice * gas.intrinsicGas
                out == handleCandidateUpdate(State, ctx, act)
            IN fee <= accounts[caller].balance =>
                /\ caller \notin DOMAIN candidates =>
                    /\ out.status = ErrCandidateNotExist
                    /\ out.err = NoError
                    /\ out.s = OnlySettled(ctx, fee)
                /\ caller \in DOMAIN candidates =>
                    /\ out.status \in {Success, NoReceipt}
                    /\ out.status = Success =>
                        /\ out.s.candidates =
                              [candidates EXCEPT
                                  ![caller].name =
                                      IF act.name # NoName THEN act.name ELSE @,
                                  ![caller].operator =
                                      IF act.operatorAddress # NilAddr
                                      THEN act.operatorAddress ELSE @,
                                  ![caller].reward =
                                      IF act.rewardAddress # NilAddr
                                      THEN act.rewardAddress ELSE @]
                        /\ out.s.inMemCandidates = out.s.candidates
                        /\ out.s.buckets = buckets
                        /\ out.s.bucketCount = bucketCount
                        /\ out.s.voterBuckets = voterBuckets
                        /\ out.s.candBuckets = candBuckets

\* An update set the operator of a1's candidate and nothing else.
C18_Witness ==
    /\ result.handler = "candidateUpdate"
    /\ result.status = Success
    /\ result.caller = "a1"
    /\ candidates["a1"].name = "n1"
    /\ candidates["a1"].operator = "a2"
    /\ candidates["a1"].reward = "a1"
    /\ candidates["a1"].votes > 0

\* C19: a successful createStake allocates a fresh bucket index, persists a
\* bucket with the named candidate's owner as candidate, the caller as owner
\* and the zero sentinel as unstake start, puts the index into
\* voter_buckets[caller] and cand_buckets[candidate], adds the bucket's weight
\* to that candidate's votes, debits amount and gas fee from the caller and
\* emits one log whose data is the bucket index; an unknown candidate name
\* gives ErrCandidateNotExist and no bucket.
C19_CreateStakeEffect ==
    result.err = NoError =>
        \A caller \in Addr, gas \in ReceiptGas, name \in Names, amount \in Amounts,
           opt \in StakeOpts :
            LET ctx == Ctx(caller, gas, 0)
                fee == gas.gasPrice * gas.intrinsicGas
                out == handleCreateStake(State, ctx,
                           [candidate |-> name, amount |-> amount,
                            duration |-> opt.duration, autoStake |-> opt.autoStake])
                known == \E o \in DOMAIN candidates : candidates[o].name = name
            IN amount + fee <= accounts[caller].balance =>
                /\ ~known =>
                    /\ out.status = ErrCandidateNotExist
                    /\ out.err = NoError
                    /\ out.s = OnlySettled(ctx, fee)
                /\ known =>
                    LET A == CHOOSE o \in DOMAIN candidates : candidates[o].name = name
                        idx == bucketCount
                        bucket == [candidate |-> A, owner |-> caller,
                                   stakedAmount |-> amount,
                                   stakedDuration |-> Hours(opt.duration * 24),
                                   unstakeStartTime |-> 0, autoStake |-> opt.autoStake]
                    IN /\ out.status = Success
                       /\ out.err = NoError
                       /\ idx \notin DOMAIN buckets
                       /\ out.s.buckets = Put(buckets, idx, bucket)
                       /\ out.s.bucketCount = bucketCount + 1
                       /\ out.s.voterBuckets = [voterBuckets EXCEPT ![caller] = @ \cup {idx}]
                       /\ out.s.candBuckets = [candBuckets EXCEPT ![A] = @ \cup {idx}]
                       /\ out.s.candidates =
                              [candidates EXCEPT
                                  ![A].votes = @ + calculateVoteWeight(bucket, FALSE)]
                       /\ out.s.inMemCandidates = out.s.candidates
                       /\ out.s.accounts =
                              [accounts EXCEPT ![caller] =
                                  [balance |-> @.balance - amount - fee,
                                   nonce |-> Max(@.nonce, ctx.nonce)]]
                       /\ out.s.rewardPool = rewardPool + fee
                       /\ out.logs =
                              << [topics |-> <<Hash256b("createStake"), Hash256b(A),
                                               Hash256b(caller)>>,
                                  data |-> <<0, 0, 0, 0, 0, 0, 0, idx>>] >>

\* A stake was created for a registered candidate: the newest bucket is the
\* caller's, is live, and the one log carries its index.
C19_Witness ==
    /\ result.handler = "createStake"
    /\ result.status = Success
    /\ Len(result.logs) = 1
    /\ result.logs[1].data = <<0, 0, 0, 0, 0, 0, 0, bucketCount - 1>>
    /\ buckets[bucketCount - 1].owner = result.caller
    /\ buckets[bucketCount - 1].unstakeStartTime = 0
    /\ (bucketCount - 1) \in voterBuckets[result.caller]
    /\ (bucketCount - 1) \in candBuckets[buckets[bucketCount - 1].candidate]

\* No two persisted candidates with different owners have the same name.
PersistedNamesUnique ==
    \A o1 \in DOMAIN candidates, o2 \in DOMAIN candidates :
        o1 # o2 => candidates[o1].name # candidates[o2].name

\* The candidate center holds each name, operator and self-stake bucket index
\* for at most one candidate.
CenterKeysUnique ==
    \A o1 \in DOMAIN inMemCandidates, o2 \in DOMAIN inMemCandidates :
        o1 # o2 =>
            /\ inMemCandidates[o1].name # inMemCandidates[o2].name
            /\ inMemCandidates[o1].operator # inMemCandidates[o2].operator
            /\ inMemCandidates[o1].selfStakeBucketIdx
                   # inMemCandidates[o2].selfStakeBucketIdx

\* C20: after any sequence of calls, one that ended with an error included,
\* no two persisted candidates with different owners have the same name; and
\* the candidate center holds each name, operator and self-stake bucket index
\* for at most one candidate.
C20_NamesUnique == PersistedNamesUnique /\ CenterKeysUnique

\* The persisted names are unique as long as no call has returned an error.
NamesUniqueBeforeAbort == result.err = NoError => PersistedNamesUnique

\* A candidateRegister under the name of another owner's candidate returns an
\* error and leaves the name persisted for both owners.
RegisterCollisionPersists ==
    result.err = NoError =>
        \A caller \in Addr, gas \in ReceiptGas, o \in DOMAIN candidates :
            LET ctx == Ctx(caller, gas, 0)
                out == handleCandidateRegister(State, ctx,
                           [name |-> candidates[o].name, operatorAddress |-> caller,
                            rewardAddress |-> caller, ownerAddress |-> NilAddr,
                            amount |-> 1, duration |-> 0, autoStake |-> FALSE])
            IN (/\ bucketCount < MaxBuckets
                /\ o # caller
                /\ o \in DOMAIN inMemCandidates
                /\ inMemCandidates[o].name = candidates[o].name
                /\ fetchCaller(State, ctx, 1 + config.registrationFee).status = OK) =>
                   /\ out.err # NoError
                   /\ out.s.candidates[caller].name = out.s.candidates[o].name

\* The functions that a handler's body passes its state manager to.
stateManagerCalls(handler) ==
    CASE handler = "createStake" ->
             {"fetchCaller", "putBucketAndIndex", "putCandidate", "StoreAccount",
              "settleAction"}
      [] handler = "unstake" ->
             {"fetchCaller", "fetchBucket", "updateBucket", "putCandidate",
              "settleAction"}
      [] handler = "withdrawStake" ->
             {"fetchCaller", "fetchBucket", "delBucket", "delCandBucketIndex",
              "delVoterBucketIndex", "StoreAccount", "settleAction"}
      [] handler = "changeCandidate" ->
             {"fetchCaller", "fetchBucket", "delCandBucketIndex", "putCandBucketIndex",
              "updateBucket", "putCandidate", "settleAction"}
      [] handler = "transferStake" ->
             {"fetchCaller", "fetchBucket", "delVoterBucketIndex",
              "putVoterBucketIndex", "updateBucket", "settleAction"}
      [] handler = "depositToStake" ->
             {"fetchCaller", "fetchBucket", "updateBucket", "putCandidate",
              "StoreAccount", "settleAction"}
      [] handler = "restake" ->
             {"fetchCaller", "fetchBucket", "updateBucket", "putCandidate",
              "settleAction"}
      [] handler = "candidateRegister" ->
             {"fetchCaller", "putBucketAndIndex", "putCandidate", "StoreAccount",
              "depositGas", "settleAction"}
      [] handler = "candidateUpdate" ->
             {"fetchCaller", "putCandidate", "settleAction"}
      [] OTHER -> {}

\* C21: every handler takes a Snapshot of the state manager on entry, and a
\* call that ends in a receipt with a status other than Success has called
\* Revert before it settled gas fee and nonce.
C21_SnapshotAndRevert ==
    result.handler # "none" =>
        /\ "Snapshot" \in stateManagerCalls(result.handler)
        /\ (Receipted /\ result.status # Success) =>
               {"Revert", "settleAction"} \subseteq stateManagerCalls(result.handler)

\* ------------------------------------------------------------------ allocation
\* Registrations, stakes, unstakes and withdrawals: long enough for a bucket
\* to be created, unstaked, withdrawn and followed by another creation.
ChangeWithdraw ==
    \E caller \in Addr, price \in ChangePrices, i \in Indices :
        ApplyWithin(MaxChangeSteps, "withdrawStake", Ctx(caller, ChangeGas(price), 2), 0,
                    handleWithdrawStake(State, Ctx(caller, ChangeGas(price), 2),
                                        [bucketIndex |-> i]))

AllocNext ==
    \/ ChangeRegister
    \/ ChangeCreateStake
    \/ ChangeUnstake
    \/ ChangeWithdraw

SpecAlloc == Init /\ [][AllocNext]_vars

\* C22: the bucket count never decreases; a call that creates a bucket stores
\* it under the bucket count of the state before and raises the count by one,
\* so that indices are handed out in strictly increasing order from the
\* initial count on; every stored bucket has an index below the count, so an
\* index whose bucket was withdrawn is never handed out again.
C22_IndicesIncrease ==
    [][/\ bucketCount' >= bucketCount
       /\ \A i \in (DOMAIN buckets') \ (DOMAIN buckets) :
              i = bucketCount /\ bucketCount' = bucketCount + 1
       /\ (result'.handler \in {"createStake", "candidateRegister"}
               /\ result'.status = Success) =>
              /\ bucketCount' = bucketCount + 1
              /\ DOMAIN buckets' = (DOMAIN buckets) \cup {bucketCount}
       /\ \A i \in DOMAIN buckets' : i < bucketCount']_vars

\* Bucket 0 was created, unstaked and withdrawn, and the bucket created after
\* that has index 1.
C22_Witness ==
    /\ steps = 4
    /\ result.handler = "createStake"
    /\ result.status = Success
    /\ bucketCount = 2
    /\ DOMAIN buckets = {1}

\* ------------------------------------------------------------------ trie machine
\* Keys of the configured length: two that differ in the last byte only, one
\* that leaves them at the third byte, one at the second and one at the first.
Keys == {<<0, 0, 0, 0>>, <<0, 0, 0, 1>>, <<0, 0, 1, 0>>, <<0, 1, 0, 0>>, <<1, 0, 0, 0>>}
\* Keys of another length: the empty one, one too short, one too long.
BadKeys == {<<>>, <<0, 0, 0>>, <<0, 0, 0, 0, 0>>}

\* The key/value pairs that Get reads from trie t.
Contents(t) ==
    LET got == [k \in Keys |-> mptGet(t, k)]
    IN [k \in {x \in Keys : got[x].err = NoError} |-> got[k].value]

\* A hash under which nothing is stored.
UnknownHash == DefaultHashFunc(<<"branch", <<>>, "unknown">>)

\* Root hashes given to SetRootHash: none, the empty root's, what RootHash()
\* returned before, the hash of a stored leaf or extension, and a hash that is
\* not stored.
RootHashInputs ==
    {NilBytes, mpt.emptyRootHash, UnknownHash}
        \cup {e.hash : e \in rootHashes}
        \cup {h \in DOMAIN mpt.kvStore : mpt.kvStore[h][1] \in {"leaf", "extend"}}

TrieCall(op, key, value, ret, err) ==
    /\ trieOps < MaxTrieOps
    /\ trieOps' = trieOps + 1
    /\ trieResult' = [op |-> op, key |-> key, value |-> value, ret |-> ret, err |-> err]
    /\ UNCHANGED <<stakingVars, goroutines>>

TrieUpsert ==
    \E key \in Keys \cup BadKeys, value \in Values :
        LET r == mptUpsert(mpt, key, value)
        IN /\ TrieCall("Upsert", key, value, NilBytes, r.err)
           /\ mpt' = r.t
           /\ UNCHANGED rootHashes

TrieDelete ==
    \E key \in Keys \cup BadKeys :
        LET r == mptDelete(mpt, key)
        IN /\ TrieCall("Delete", key, NilBytes, NilBytes, r.err)
           /\ mpt' = r.t
           /\ UNCHANGED rootHashes

TrieGet ==
    \E key \in Keys \cup BadKeys :
        LET r == mptGet(mpt, key)
        IN /\ TrieCall("Get", key, NilBytes, r.value, r.err)
           /\ UNCHANGED <<mpt, rootHashes>>

TrieIsEmpty ==
    /\ TrieCall("IsEmpty", NilBytes, NilBytes, IsEmpty(mpt), NoError)
    /\ UNCHANGED <<mpt, rootHashes>>

TrieRootHash ==
    /\ TrieCall("RootHash", NilBytes, NilBytes, RootHash(mpt), NoError)
    /\ rootHashes' = rootHashes \cup {[hash |-> RootHash(mpt), contents |-> Contents(mpt)]}
    /\ UNCHANGED mpt

TrieSetRootHash ==
    \E h \in RootHashInputs :
        LET r == SetRootHash(mpt, h)
        IN /\ TrieCall("SetRootHash", h, NilBytes, NilBytes, r.err)
           /\ mpt' = r.t
           /\ UNCHANGED rootHashes

TrieNext ==
    \/ TrieUpsert
    \/ TrieDelete
    \/ TrieGet
    \/ TrieIsEmpty
    \/ TrieRootHash
    \/ TrieSetRootHash

SpecTrie == Init /\ [][TrieNext]_vars

\* ------------------------------------------------------------------ trie properties
\* C23: Get, Upsert and Delete with a key whose length is not the configured
\* key length return the invalid-key-length error and leave the root, the
\* root hash and the KV store as they were.
C23_WrongKeyLength ==
    [][(trieResult'.op \in {"Get", "Upsert", "Delete"}
            /\ Len(trieResult'.key) # mpt.keyLength) =>
        /\ trieResult'.err = ErrInvalidKeyLength
        /\ mpt'.root = mpt.root
        /\ mpt'.rootHash = mpt.rootHash
        /\ mpt'.kvStore = mpt.kvStore]_vars

\* An Upsert with a key that is too long was refused by a trie that holds
\* something.
C23_Witness ==
    /\ trieResult.op = "Upsert"
    /\ Len(trieResult.key) > mpt.keyLength
    /\ trieResult.err = ErrInvalidKeyLength
    /\ mpt.kvStore # <<>>
    /\ ~IsEmpty(mpt)

\* C24: Delete of a key of valid length returns ErrNotExist exactly when Get
\* does not find the key, and then leaves the root hash, the pairs that Get
\* reads and the whole trie object as they were; a Delete that returns no
\* error removes exactly that key.
C24_DeleteAbsent ==
    [][(trieResult'.op = "Delete" /\ Len(trieResult'.key) = mpt.keyLength) =>
        /\ trieResult'.err \in {NoError, ErrNotExist}
        /\ trieResult'.err = ErrNotExist <=> trieResult'.key \notin DOMAIN Contents(mpt)
        /\ trieResult'.err = ErrNotExist =>
            /\ mpt'.rootHash = mpt.rootHash
            /\ Contents(mpt') = Contents(mpt)
            /\ mpt' = mpt
        /\ trieResult'.err = NoError =>
            Contents(mpt') = Del(Contents(mpt), trieResult'.key)]_vars

\* A Delete of a key that is not in the trie, next to a last byte that is, was
\* refused.
C24_Witness ==
    /\ trieResult.op = "Delete"
    /\ trieResult.key = <<0, 0, 0, 1>>
    /\ trieResult.err = ErrNotExist
    /\ DOMAIN Contents(mpt) = {<<0, 0, 0, 0>>, <<1, 0, 0, 0>>}

\* Upserts alone, from the empty trie.
SpecTrieUpsert == Init /\ [][TrieUpsert]_vars

\* A key as a number, and the keys of a set in ascending order.
RECURSIVE KeyNumber(_)
KeyNumber(key) == IF key = <<>> THEN 0 ELSE 2 * KeyNumber(SubSeq(key, 1, Len(key) - 1)) + key[Len(key)]
RECURSIVE Ascending(_)
Ascending(S) ==
    IF S = {} THEN <<>>
    ELSE LET k == CHOOSE x \in S : \A y \in S : KeyNumber(x) <= KeyNumber(y)
         IN <<k>> \o Ascending(S \ {k})

\* The trie that holds the pairs of map M, upserted in the given order of keys
\* into trie t.
RECURSIVE UpsertAll(_, _, _)
UpsertAll(t, M, order) ==
    IF order = <<>> THEN t
    ELSE UpsertAll(mptUpsert(t, Head(order), M[Head(order)]).t, M, Tail(order))

\* Every map from some of the keys to values, and for each the root hash of
\* the trie that got its pairs in ascending order of keys.
Maps == UNION {[S -> Values] : S \in SUBSET Keys}
AscendingRootHash ==
    [M \in Maps |-> UpsertAll(Start(New).t, M, Ascending(DOMAIN M)).rootHash]

\* C25: after any sequence of Upserts into the empty trie, the root hash is
\* the one of the trie that got the same pairs in ascending order of keys (so
\* every order gives the same root hash); an Upsert of (k, v) makes Get(k)
\* return v and changes what Get returns for no other key, and Get returns
\* ErrNotExist for every key of valid length that was not upserted.
C25_UpsertOrderIndependent ==
    [][(trieResult'.op = "Upsert" /\ Len(trieResult'.key) = mpt.keyLength) =>
        LET M == Contents(mpt')
        IN /\ trieResult'.err = NoError
           /\ M = Put(Contents(mpt), trieResult'.key, trieResult'.value)
           /\ \A k \in Keys \ DOMAIN M : mptGet(mpt', k).err = ErrNotExist
           /\ mpt'.rootHash = AscendingRootHash[M]]_vars

\* Four keys were upserted, the smallest of them last and the largest first or
\* second: not in ascending order.
C25_Witness ==
    /\ trieOps = 4
    /\ trieResult.op = "Upsert"
    /\ trieResult.key = <<0, 0, 0, 0>>
    /\ DOMAIN Contents(mpt) = Keys \ {<<0, 0, 1, 0>>}
    /\ Contents(mpt)[<<0, 0, 0, 1>>] # Contents(mpt)[<<0, 0, 0, 0>>]

\* Upserts and Deletes, from the empty trie.
TrieWriteNext ==
    \/ TrieUpsert
    \/ TrieDelete

SpecTrieWrites == Init /\ [][TrieWriteNext]_vars

\* C26: in every trie reached by Upserts and Deletes, for every key k of valid
\* length that Get does not find and every value v, Upsert(k, v) followed by
\* Delete(k) succeeds twice and ends with the root hash, and the pairs that
\* Get reads, of the trie before the Upsert; from the empty trie it ends with
\* the empty-root hash.
C26_DeleteInvertsUpsert ==
    \A k \in Keys \ DOMAIN Contents(mpt), v \in Values :
        LET u == mptUpsert(mpt, k, v)
            d == mptDelete(u.t, k)
        IN /\ u.err = NoError
           /\ d.err = NoError
           /\ u.t.rootHash # mpt.rootHash
           /\ RootHash(d.t) = RootHash(mpt)
           /\ Contents(d.t) = Contents(mpt)
           /\ IsEmpty(mpt) => RootHash(d.t) = mpt.emptyRootHash

\* A Delete has just emptied a trie whose KV store holds nodes, and an absent
\* key next to none: the Upsert then Delete goes from the empty root and back.
C26_Witness ==
    /\ trieResult.op = "Delete"
    /\ trieResult.err = NoError
    /\ IsEmpty(mpt)
    /\ mpt.kvStore # <<>>
    /\ Contents(mpt) = <<>>

\* C27: a SetRootHash(h) that succeeds with a hash h that RootHash() returned
\* for a root stored in the KV store makes RootHash() return h and Get read
\* the pairs of that root; SetRootHash with no bytes or with the empty-root
\* hash succeeds and installs the empty root: RootHash() is the empty-root
\* hash, IsEmpty() is true and Get finds no key.
C27_SetRootHash ==
    [][trieResult'.op = "SetRootHash" =>
        LET h == trieResult'.key
        IN /\ (Len(h) = 0 \/ h = mpt.emptyRootHash) =>
                /\ trieResult'.err = NoError
                /\ RootHash(mpt') = mpt.emptyRootHash
                /\ IsEmpty(mpt')
                /\ mpt'.root = newEmptyRootBranchNode
                /\ Contents(mpt') = <<>>
           /\ (trieResult'.err = NoError /\ Len(h) # 0) =>
                /\ RootHash(mpt') = h
                /\ mpt'.root.isRoot
                /\ \A e \in rootHashes : e.hash = h => Contents(mpt') = e.contents
           /\ trieResult'.err # NoError => mpt' = mpt]_vars

\* SetRootHash has just put back a root with one key that RootHash() had
\* returned, in a trie where a later Upsert had stored a leaf of another key.
C27_Witness ==
    /\ trieResult.op = "SetRootHash"
    /\ trieResult.err = NoError
    /\ trieResult.key \in DOMAIN mpt.kvStore
    /\ \E e \in rootHashes :
          /\ e.hash = trieResult.key
          /\ Cardinality(DOMAIN e.contents) = 1
          /\ Contents(mpt) = e.contents
          /\ \E x \in DOMAIN mpt.kvStore :
                /\ mpt.kvStore[x][1] = "leaf"
                /\ mpt.kvStore[x][2] \notin DOMAIN e.contents

\* ------------------------------------------------------------------ goroutines
\* Two goroutines call the trie. A call that takes the lock is a sequence of
\* steps: Lock or RLock, the body, and for a writer the three assignments of
\* resetRoot one by one, then the unlock. RootHash takes no lock and is one
\* step.
WriterOps == {"Upsert", "Delete", "SetRootHash"}
ReaderOps == {"Get", "IsEmpty", "RootHash"}

\* The slice that make([]byte, len(h)) returns, and one that copy has filled
\* in part.
ZeroBytes == <<"zeros">>
TornBytes(h) == <<"torn", h>>

\* Calls that have started and not returned.
InFlight == Cardinality({g \in Goroutines : goroutines[g].pc # "idle"})

GoStep(g, rec) ==
    /\ goroutines' = [goroutines EXCEPT ![g] = rec]
    /\ UNCHANGED <<stakingVars, rootHashes>>

\* mutex.Lock() at the head of Upsert, Delete and SetRootHash.
GoLock(g) ==
    /\ goroutines[g].pc = "idle"
    /\ trieOps + InFlight < MaxTrieOps
    /\ mpt.mutex.writer = NoThread
    /\ mpt.mutex.readers = {}
    /\ \E op \in WriterOps, key \in Keys \cup RootHashInputs, value \in Values :
          /\ op = "SetRootHash" <=> key \in RootHashInputs
          /\ op # "Upsert" => value = "v1"
          /\ GoStep(g, [Idle EXCEPT !.pc = "locked", !.op = op, !.key = key,
                                     !.value = IF op = "Upsert" THEN value ELSE NilBytes])
    /\ mpt' = [mpt EXCEPT !.mutex.writer = g]
    /\ UNCHANGED <<trieOps, trieResult>>

\* What the call of a writer does to the trie when nothing runs beside it.
WriteOutcome(t, op, key, value) ==
    CASE op = "Upsert" -> mptUpsert(t, key, value)
      [] op = "Delete" -> mptDelete(t, key)
      [] op = "SetRootHash" -> SetRootHash(t, key)

\* The body of a writer up to the first assignment of resetRoot,
\* mpt.root = newRoot; a call that fails goes to its return.
GoReplaceRoot(g) ==
    /\ goroutines[g].pc = "locked"
    /\ LET c == goroutines[g]
           r == WriteOutcome(mpt, c.op, c.key, c.value)
       IN IF r.err # NoError
          THEN /\ GoStep(g, [c EXCEPT !.pc = "unlock", !.err = r.err])
               /\ UNCHANGED mpt
          ELSE /\ GoStep(g, [c EXCEPT !.pc = "rootReplaced", !.h = r.t.rootHash])
               /\ mpt' = [mpt EXCEPT !.kvStore = r.t.kvStore, !.root = r.t.root]
    /\ UNCHANGED <<trieOps, trieResult>>

\* resetRoot: mpt.rootHash = make([]byte, len(h))
GoAllocRootHash(g) ==
    /\ goroutines[g].pc = "rootReplaced"
    /\ GoStep(g, [goroutines[g] EXCEPT !.pc = "hashAllocated"])
    /\ mpt' = [mpt EXCEPT !.rootHash = ZeroBytes]
    /\ UNCHANGED <<trieOps, trieResult>>

\* resetRoot: copy(mpt.rootHash, h)
GoCopyRootHash(g) ==
    /\ goroutines[g].pc = "hashAllocated"
    /\ GoStep(g, [goroutines[g] EXCEPT !.pc = "unlock"])
    /\ mpt' = [mpt EXCEPT !.rootHash = goroutines[g].h]
    /\ UNCHANGED <<trieOps, trieResult>>

\* The deferred mutex.Unlock() and the return of a writer.
GoUnlock(g) ==
    /\ goroutines[g].pc = "unlock"
    /\ GoStep(g, Idle)
    /\ mpt' = [mpt EXCEPT !.mutex.writer = NoThread]
    /\ trieOps' = trieOps + 1
    /\ trieResult' = [op |-> goroutines[g].op, key |-> goroutines[g].key,
                      value |-> goroutines[g].value, ret |-> NilBytes,
                      err |-> goroutines[g].err]

\* mutex.RLock() at the head of Get and IsEmpty.
GoRLock(g) ==
    /\ goroutines[g].pc = "idle"
    /\ trieOps + InFlight < MaxTrieOps
    /\ mpt.mutex.writer = NoThread
    /\ \E op \in {"Get", "IsEmpty"}, key \in Keys \cup {NilBytes} :
          /\ op = "IsEmpty" <=> key = NilBytes
          /\ GoStep(g, [Idle EXCEPT !.pc = "rlocked", !.op = op, !.key = key])
    /\ mpt' = [mpt EXCEPT !.mutex.readers = @ \cup {g}]
    /\ UNCHANGED <<trieOps, trieResult>>

\* The body of Get and of IsEmpty.
GoRead(g) ==
    /\ goroutines[g].pc = "rlocked"
    /\ LET c == goroutines[g]
           r == mptGet(mpt, c.key)
       IN IF c.op = "Get"
          THEN GoStep(g, [c EXCEPT !.pc = "runlock", !.ret = r.value, !.err = r.err])
          ELSE GoStep(g, [c EXCEPT !.pc = "runlock", !.ret = IsEmpty(mpt)])
    /\ UNCHANGED <<mpt, trieOps, trieResult>>

\* The deferred mutex.RUnlock() and the return of Get and IsEmpty.
GoRUnlock(g) ==
    /\ goroutines[g].pc = "runlock"
    /\ GoStep(g, Idle)
    /\ mpt' = [mpt EXCEPT !.mutex.readers = @ \ {g}]
    /\ trieOps' = trieOps + 1
    /\ trieResult' = [op |-> goroutines[g].op, key |-> goroutines[g].key,
                      value |-> NilBytes, ret |-> goroutines[g].ret,
                      err |-> goroutines[g].err]

\* What a read of mpt.rootHash without the lock can give: the slice that is
\* there, or, while a writer has allocated the new slice and not finished the
\* copy into it, a slice filled in part.
RacyRootHash ==
    {mpt.rootHash}
        \cup {TornBytes(goroutines[w].h) :
                w \in {x \in Goroutines : goroutines[x].pc = "hashAllocated"}}

\* mpt.RootHash: return mpt.rootHash, with no lock taken.
GoRootHash(g) ==
    /\ goroutines[g].pc = "idle"
    /\ trieOps + InFlight < MaxTrieOps
    /\ \E h \in RacyRootHash :
          trieResult' = [op |-> "RootHash", key |-> NilBytes, value |-> NilBytes,
                         ret |-> h, err |-> NoError]
    /\ trieOps' = trieOps + 1
    /\ UNCHANGED <<stakingVars, mpt, rootHashes, goroutines>>

GoNext ==
    \E g \in Goroutines :
        \/ GoLock(g)
        \/ GoReplaceRoot(g)
        \/ GoAllocRootHash(g)
        \/ GoCopyRootHash(g)
        \/ GoUnlock(g)
        \/ GoRLock(g)
        \/ GoRead(g)
        \/ GoRUnlock(g)
        \/ GoRootHash(g)

SpecGoroutines == Init /\ [][GoNext]_vars

\* A writer that has replaced the root and not yet stored the new root hash.
MidWrite == \E w \in Goroutines : goroutines[w].pc \in {"rootReplaced", "hashAllocated"}

\* C28: the calls are serialized by the lock: a reader and a writer never hold
\* it together, and no reader (Get, IsEmpty, RootHash) returns while a writer
\* is between replacing the root and storing the new root hash, so that what
\* RootHash() returns is the hash of the root it finds.
C28_Serialized ==
    [][/\ ~(mpt.mutex.writer # NoThread /\ mpt.mutex.readers # {})
       /\ (Cardinality({g \in Goroutines : goroutines[g].pc = "rlocked"}) > 0) => ~MidWrite
       /\ (trieOps' = trieOps + 1 /\ trieResult'.op \in ReaderOps) =>
              /\ ~MidWrite
              /\ trieResult'.op = "RootHash" => trieResult'.ret = NodeHash(mpt.root)]_vars

\* The same for the readers that take the lock, Get and IsEmpty.
LockedReadersSerialized ==
    [][/\ ~(mpt.mutex.writer # NoThread /\ mpt.mutex.readers # {})
       /\ (Cardinality({g \in Goroutines : goroutines[g].pc = "rlocked"}) > 0) => ~MidWrite
       /\ (trieOps' = trieOps + 1 /\ trieResult'.op \in {"Get", "IsEmpty"}) => ~MidWrite]_vars

\* ------------------------------------------------------------------ historical roots
\* C29, under the node operations as the specification describes them (a
\* replaced node stays in the KV store): no call removes or overwrites an
\* entry of the KV store, and for every root hash that RootHash() returned,
\* SetRootHash succeeds and Get then reads the pairs the trie held when
\* RootHash() returned it. Whether the nodes of the repository call
\* deleteNode when they are replaced is not decided by this model.
C29_HistoricalRoots ==
    [][/\ \A h \in DOMAIN mpt.kvStore :
             h \in DOMAIN mpt'.kvStore /\ mpt'.kvStore[h] = mpt.kvStore[h]
       /\ \A e \in rootHashes' :
             LET r == SetRootHash(mpt', e.hash)
             IN r.err = NoError /\ Contents(r.t) = e.contents]_vars

\* RootHash() returned the hash of a root with one key, and two writes later
\* the trie holds other pairs.
C29_Witness ==
    /\ trieOps = 4
    /\ trieResult.op \in {"Upsert", "Delete"}
    /\ trieResult.err = NoError
    /\ \E e \in rootHashes :
          /\ Cardinality(DOMAIN e.contents) = 1
          /\ DOMAIN e.contents \cap DOMAIN Contents(mpt) = {}
          /\ e.hash # RootHash(mpt)

\* ------------------------------------------------------------------ restake
\* The effect of a successful restake(idx, days, auto_stake) by the owner of
\* the bucket, for the durations in Days: the bucket's staked duration is days
\* times 24 hours and its auto-stake flag the given one, the votes of the
\* bucket's candidate change by the bucket's weight after minus its weight
\* before, and the bucket's amount, owner, candidate, creation and unstake
\* times, every other bucket and candidate, the index sets, and the balances
\* apart from the gas fee are as they were.
RestakeEffect(Days) ==
    result.err = NoError =>
        \A i \in DOMAIN buckets, gas \in ReceiptGas, days \in Days, auto \in BOOLEAN :
            LET bucket == buckets[i]
                A == bucket.candidate
                ctx == Ctx(bucket.owner, gas, 0)
                fee == gas.gasPrice * gas.intrinsicGas
                out == handleRestake(State, ctx,
                           [bucketIndex |-> i, duration |-> days, autoStake |-> auto])
            IN out.status = Success =>
                LET isSelf == candidates[A].selfStakeBucketIdx = i
                    after == [bucket EXCEPT !.stakedDuration = Hours(days * 24),
                                            !.autoStake = auto]
                IN /\ out.err = NoError
                   /\ out.s.buckets = [buckets EXCEPT ![i] = after]
                   /\ out.s.buckets[i].stakedAmount = bucket.stakedAmount
                   /\ out.s.buckets[i].owner = bucket.owner
                   /\ out.s.buckets[i].candidate = A
                   /\ out.s.buckets[i].unstakeStartTime = bucket.unstakeStartTime
                   /\ out.s.candidates =
                          [candidates EXCEPT ![A].votes =
                               @ + calculateVoteWeight(after, isSelf)
                                 - calculateVoteWeight(bucket, isSelf)]
                   /\ out.s.inMemCandidates = out.s.candidates
                   /\ out.s.voterBuckets = voterBuckets
                   /\ out.s.candBuckets = candBuckets
                   /\ out.s.bucketCount = bucketCount
                   /\ out.s.accounts = OnlySettled(ctx, fee).accounts
                   /\ out.s.rewardPool = rewardPool + fee

\* C30: a successful restake(idx, duration, auto_stake) by the owner of the
\* bucket sets the bucket's staked duration to duration times 24 hours and
\* its auto-stake flag to the given one, changes the votes of the bucket's
\* candidate by the bucket's weight after minus its weight before, and leaves
\* everything else but the gas fee as it was; for short durations and for the
\* durations on either side of the largest whole number of days an int64 of
\* nanoseconds holds.
C30_RestakeEffect == RestakeEffect({0, 1, 2, 106751, 106752})

\* The same effect for the durations whose nanoseconds fit into an int64.
RestakeEffectInRange == RestakeEffect({0, 1, 2, 106751})

\* A candidate's self-staking bucket, staked for no days without auto-stake,
\* was restaked by its owner to one day with auto-stake, and the candidate's
\* votes are the doubled weight the bucket has now.
C30_Witness ==
    /\ result.handler = "restake"
    /\ result.status = Success
    /\ \E i \in DOMAIN buckets :
           /\ buckets[i].owner = result.caller
           /\ buckets[i].stakedDuration = Hours(24)
           /\ buckets[i].autoStake
           /\ buckets[i].candidate \in DOMAIN candidates
           /\ candidates[buckets[i].candidate].votes =
                  calculateVoteWeight(buckets[i],
                      candidates[buckets[i].candidate].selfStakeBucketIdx = i)
           /\ candidates[buckets[i].candidate].votes > 3 * buckets[i].stakedAmount

\* ------------------------------------------------------------------ depositToStake
\* C31: depositToStake does not check the owner: a caller other than the
\* bucket's owner whose balance covers the amount and the gas fee succeeds on
\* an auto-stake bucket; the amount and the fee are taken from the caller and
\* nothing from the owner, the bucket's staked amount grows by the amount, the
\* candidate's votes change from the old to the new weight, and the
\* candidate's self-stake grows by the amount exactly when the bucket is its
\* self-staking bucket.
C31_DepositByNonOwner ==
    result.err = NoError =>
        \A i \in DOMAIN buckets, gas \in ReceiptGas, amount \in {1, 2} :
          \A caller \in Addr \ {buckets[i].owner} :
            LET bucket == buckets[i]
                A == bucket.candidate
                ctx == Ctx(caller, gas, 0)
                fee == gas.gasPrice * gas.intrinsicGas
                out == handleDepositToStake(State, ctx,
                           [bucketIndex |-> i, amount |-> amount])
            IN (bucket.autoStake /\ LoadAccount(State, caller).balance >= amount + fee) =>
                LET isSelf == A \in DOMAIN candidates /\ candidates[A].selfStakeBucketIdx = i
                    after == [bucket EXCEPT !.stakedAmount = @ + amount]
                IN /\ out.status = Success
                   /\ out.err = NoError
                   /\ out.s.buckets = [buckets EXCEPT ![i] = after]
                   /\ out.s.candidates =
                          [candidates EXCEPT ![A].votes =
                               @ - calculateVoteWeight(bucket, isSelf)
                                 + calculateVoteWeight(after, isSelf),
                                             ![A].selfStake =
                               IF isSelf THEN @ + amount ELSE @]
                   /\ out.s.inMemCandidates = out.s.candidates
                   /\ out.s.accounts =
                          [OnlySettled(ctx, fee).accounts EXCEPT ![caller].balance = @ - amount]
                   /\ out.s.accounts[bucket.owner] = accounts[bucket.owner]
                   /\ out.s.rewardPool = rewardPool + fee
                   /\ out.s.voterBuckets = voterBuckets
                   /\ out.s.candBuckets = candBuckets
                   /\ out.s.bucketCount = bucketCount

\* ------------------------------------------------------------------ candidate center
\* C32: a handler changes the in-memory candidate center only after its
\* writes and its settlement have succeeded: when a call ends with a fatal
\* error or with a receipt whose status is not Success, the center is what it
\* was before the call, and when the center has changed the call has settled
\* (the fee is in the reward pool) and the center agrees with the persisted
\* candidates.
C32_CenterChangesLast ==
    [][/\ result'.status # Success => inMemCandidates' = inMemCandidates
       /\ inMemCandidates' # inMemCandidates =>
              /\ result'.err = NoError
              /\ result'.gasConsumed = result'.intrinsicGas
              /\ rewardPool' >= rewardPool + result'.gasPrice * result'.intrinsicGas
              /\ inMemCandidates' = candidates']_vars

\* A createStake ended with a fatal error on the gas limit after it had
\* written the bucket and the candidate's votes, and the center does not
\* have those votes.
C32_Witness ==
    /\ result.handler = "createStake"
    /\ result.status = NoReceipt
    /\ result.err = "ErrHitGasLimit"
    /\ \E o \in DOMAIN candidates :
           /\ o \in DOMAIN inMemCandidates
           /\ candidates[o].votes > inMemCandidates[o].votes

\* ------------------------------------------------------------------ the root
\* C33: the root of the trie is a branch marked as root, after Start and
\* after every call; SetRootHash with the hash of a stored leaf or extension
\* returns the invalid-trie error and leaves the root and the root hash as
\* they were.
C33_RootIsBranch ==
    [][/\ mpt.root.kind = "branch" /\ mpt.root.isRoot
       /\ mpt'.root.kind = "branch" /\ mpt'.root.isRoot
       /\ (/\ trieResult'.op = "SetRootHash"
           /\ trieResult'.key \in DOMAIN mpt.kvStore
           /\ mpt.kvStore[trieResult'.key][1] \in {"leaf", "extend"}) =>
              /\ trieResult'.err = ErrInvalidTrie
              /\ mpt'.root = mpt.root
              /\ mpt'.rootHash = mpt.rootHash]_vars

\* SetRootHash with the hash of a stored extension was refused by a trie
\* that holds two keys.
C33_Witness ==
    /\ trieResult.op = "SetRootHash"
    /\ trieResult.err = ErrInvalidTrie
    /\ trieResult.key \in DOMAIN mpt.kvStore
    /\ mpt.kvStore[trieResult.key][1] = "extend"
    /\ Cardinality(DOMAIN Contents(mpt)) = 2
    /\ mpt.root.kind = "branch"

\* ------------------------------------------------------------------ funds
\* The balances of all accounts, the staked amounts of all buckets and the
\* reward pool, added up.
TotalFunds ==
    SumOver(DOMAIN accounts, [a \in DOMAIN accounts |-> accounts[a].balance])
        + SumOver(DOMAIN buckets, [i \in DOMAIN buckets |-> buckets[i].stakedAmount])
        + rewardPool

\* C34: the sum of all account balances, of the staked amounts of all
\* existing buckets and of the reward pool is the same after every staking
\* action as at the start.
C34_FundsConserved ==
    TotalFunds = Cardinality(Addr) * InitBalance

\* ------------------------------------------------------------------ registering twice
\* C35: candidateRegister never replaces a candidate that exists: every
\* candidate of the persisted set and of the center is after a
\* candidateRegister what it was before it, whoever the caller is and whatever
\* the owner field of the action names.
C35_RegisterKeepsCandidates ==
    [][result'.handler = "candidateRegister" =>
        /\ \A o \in DOMAIN candidates :
               o \in DOMAIN candidates' /\ candidates'[o] = candidates[o]
        /\ \A o \in DOMAIN inMemCandidates :
               o \in DOMAIN inMemCandidates' /\ inMemCandidates'[o] = inMemCandidates[o]]_vars

\* ------------------------------------------------------------------ changing to the same candidate
\* C36: a successful changeCandidate whose name resolves to the candidate the
\* bucket votes for already leaves that candidate's votes as they were, in the
\* persisted set and in the center.
C36_SameCandidateKeepsVotes ==
    result.err = NoError =>
        \A i \in DOMAIN buckets, name \in Names, gas \in ReceiptGas :
            LET bucket == buckets[i]
                A == bucket.candidate
                ctx == Ctx(bucket.owner, gas, 0)
                out == handleChangeCandidate(State, ctx,
                                             [candidate |-> name, bucketIndex |-> i])
            IN (/\ CenterHasName(inMemCandidates, name)
                /\ GetByName(inMemCandidates, name).owner = A
                /\ A \in DOMAIN candidates
                /\ out.status = Success) =>
                /\ out.s.candidates[A].votes = candidates[A].votes
                /\ out.s.inMemCandidates[A].votes = inMemCandidates[A].votes

\* ------------------------------------------------------------------ unstaked buckets
\* C37: once a bucket has a non-zero unstake start time, no call changes that
\* time as long as the bucket exists.
C37_UnstakeTimeIsKept ==
    [][\A i \in DOMAIN buckets :
          (buckets[i].unstakeStartTime # 0 /\ i \in DOMAIN buckets') =>
              buckets'[i].unstakeStartTime = buckets[i].unstakeStartTime]_vars

\* C38: after an unstake of a bucket that returned Success, in a block with
\* any timestamp, a withdrawStake of that bucket by its owner does not return
\* ErrWithdrawBeforeUnstake, whatever the timestamp of its block.
C38_UnstakedIsWithdrawable ==
    result.err = NoError =>
        \A i \in DOMAIN buckets, gas \in ReceiptGas, t \in Times, later \in Times :
            LET owner == buckets[i].owner
                unstaked == handleUnstake(State, Ctx(owner, gas, t), [bucketIndex |-> i])
                out == handleWithdrawStake(unstaked.s, Ctx(owner, gas, later),
                                           [bucketIndex |-> i])
            IN (unstaked.status = Success /\ later >= t) =>
                out.status # ErrWithdrawBeforeUnstake

\* ------------------------------------------------------------------ opening a trie
\* The trie has a root: Start has returned without an error.
Started == mpt.root # NilNode

\* New with the KV store of the trie in use and a root hash, followed by Start.
TrieOpen ==
    \E h \in RootHashInputs :
        LET r == Start(RootHashOption(KVStoreOption(New, mpt.kvStore), h))
        IN /\ TrieCall("Start", h, NilBytes, NilBytes, r.err)
           /\ mpt' = r.t
           /\ UNCHANGED rootHashes

\* Upsert, Delete and Get read mpt.root, which is nil until Start succeeds.
OpenedUpsert == Started /\ TrieUpsert
OpenedDelete == Started /\ TrieDelete
OpenedGet == Started /\ TrieGet
OpenedRootHash == Started /\ TrieRootHash

TrieOpenNext ==
    \/ TrieOpen
    \/ OpenedUpsert
    \/ OpenedDelete
    \/ OpenedGet
    \/ OpenedRootHash
    \/ TrieIsEmpty
    \/ TrieSetRootHash

SpecTrieOpen == Init /\ [][TrieOpenNext]_vars

\* The stored root hash is the hash of the root in memory.
RootHashOfRoot(t) == t.root # NilNode /\ t.rootHash = NodeHash(t.root)

\* C39: after every trie operation, one that returned an error included, the
\* stored root hash is the hash of the root in memory; and SetRootHash with a
\* hash that the KV store cannot load returns an error and changes neither
\* the root nor the root hash.
C39_RootHashIsHashOfRoot ==
    [][trieOps' # trieOps =>
          /\ RootHashOfRoot(mpt')
          /\ (/\ trieResult'.op = "SetRootHash"
              /\ Len(trieResult'.key) # 0
              /\ ~isEmptyRootHash(mpt, trieResult'.key)
              /\ loadNode(mpt.kvStore, trieResult'.key).err # NoError) =>
                  /\ trieResult'.err # NoError
                  /\ mpt'.root = mpt.root
                  /\ mpt'.rootHash = mpt.rootHash]_vars
====
